---- MODULE Spec2Model ----
(***************************************************************************)
(* A model of ProjectRerooter (src/src/project_rerooter): the sync planner  *)
(* (sync.py), the structural and generic rewriters (rewriter.py) and the    *)
(* sync executor (engine.py).                                               *)
(*                                                                          *)
(* Text is modelled by TLA+ strings; TLC evaluates Len, SubSeq and \o on    *)
(* them, so every string function of the program is computed character by   *)
(* character as Python computes it.                                         *)
(***************************************************************************)
EXTENDS Integers, Sequences, FiniteSets, TLC

VARIABLES
    pmPath,      \* path mapper: the relative path handed to apply_path_mappings
    pmMappings,  \* path mapper: the mapping list (sequence of [from, to])
    pmFwd,       \* path mapper: result of the forward application
    pmBack,      \* path mapper: result of the reverse application on pmFwd
    pmStage,     \* path mapper: "input", "mapped" or "back"
    giContent,   \* ignore matcher: the text of the .gitignore file
    giRules,     \* ignore matcher: the rules parsed from it (GitIgnoreMatcher._rules)
    giPath,      \* ignore matcher: the relative path asked about
    giVerdict,   \* ignore matcher: the result of is_ignored
    giStage,     \* ignore matcher: "file", "parsed" or "done"
    slContent,   \* solution rewriter: the text of the source solution file
    slSrcSln,    \* solution rewriter: source_sln_abs
    slDstSln,    \* solution rewriter: target_sln_abs
    slAbsMap,    \* solution rewriter: abs_map (source path -> destination path)
    slPolicy,    \* solution rewriter: orphan_policy, "warn" or "strict"
    slText,      \* solution rewriter: the text returned
    slWarnings,  \* solution rewriter: the warnings returned (or collected before the raise)
    slStage,     \* solution rewriter: "input", "returned" or "raised"
    fsFiles,     \* file system: absolute path -> file record, for every regular file
    fsDirs,      \* file system: the absolute paths of the directories
    rsConfig,    \* run_sync: config, the AppConfig
    rsPc,        \* run_sync: "idle", "loop", "returned", "raised" (ValueError) or
                 \* "failed" (OSError of a write); "off" when not modelled
    rsDryRun,    \* run_sync: dry_run of the current run
    rsSyncback,  \* run_sync: syncback of the current run
    rsPlan,      \* run_sync: plan, the SyncPlan of the current run
    rsAbsMap,    \* run_sync: abs_map, resolved source path -> resolved target path
    rsIndex,     \* run_sync: the position of the loop in plan.actions
    rsReport,    \* run_sync: report, the SyncReport of the current run
    rsWritten,   \* history: the paths write_text was called on in the current run
    rsHistory,   \* history: one record for every run that has ended
    fsStart,     \* history: the file system when the current run began
    fsInitial    \* history: the file system before the first run

pmVars == <<pmPath, pmMappings, pmFwd, pmBack, pmStage>>
giVars == <<giContent, giRules, giPath, giVerdict, giStage>>
slVars == <<slContent, slSrcSln, slDstSln, slAbsMap, slPolicy, slText, slWarnings, slStage>>

enVars == <<fsFiles, fsDirs, rsConfig, rsPc, rsDryRun, rsSyncback, rsPlan, rsAbsMap, rsIndex,
            rsReport, rsWritten, rsHistory, fsStart, fsInitial>>

vars == <<pmVars, giVars, slVars, enVars>>

(***************************************************************************)
(* Python string primitives.                                                *)
(***************************************************************************)

\* s[i] (1-based), as a one-character string.
Ch(s, i) == SubSeq(s, i, i)

\* s[i-1:] of Python: the rest of s from position i on.
Rest(s, i) == SubSeq(s, i, Len(s))

\* s.startswith(f, i-1)
StartsAt(s, f, i) ==
    /\ i + Len(f) - 1 <= Len(s)
    /\ SubSeq(s, i, i + Len(f) - 1) = f

StartsWith(s, f) == StartsAt(s, f, 1)

EndsWith(s, f) ==
    /\ Len(f) <= Len(s)
    /\ SubSeq(s, Len(s) - Len(f) + 1, Len(s)) = f

\* The least element of a non-empty set of integers.
MinOf(S) == CHOOSE k \in S : \A m \in S : k <= m

\* str.find(f, i-1), 1-based: the first position at or after i where f
\* occurs in s; 0 when there is none.
FindFrom(s, f, i) ==
    LET at == { j \in i..(Len(s) - Len(f) + 1) : StartsAt(s, f, j) }
    IN  IF at = {} THEN 0 ELSE MinOf(at)

\* f in s
Contains(s, f) == FindFrom(s, f, 1) # 0

\* The characters of s, as a set of one-character strings.
Chars(s) == { Ch(s, i) : i \in 1..Len(s) }

\* str.replace(f, t) for a non-empty f: leftmost, non-overlapping occurrences.
RECURSIVE ReplaceFrom(_, _, _, _)
ReplaceFrom(s, f, t, i) ==
    LET j == FindFrom(s, f, i)
    IN  IF j = 0 THEN Rest(s, i)
        ELSE SubSeq(s, i, j - 1) \o t \o ReplaceFrom(s, f, t, j + Len(f))

\* str.replace("", t): t before every character and at the end; here t
\* before each of the characters i..j of s.
RECURSIVE Interleave(_, _, _, _)
Interleave(s, t, i, j) ==
    IF i > j THEN ""
    ELSE IF i = j THEN t \o Ch(s, i)
    ELSE Interleave(s, t, i, (i + j) \div 2) \o Interleave(s, t, (i + j) \div 2 + 1, j)

StrReplace(s, f, t) ==
    IF f = "" THEN Interleave(s, t, 1, Len(s)) \o t ELSE ReplaceFrom(s, f, t, 1)

\* str.count(f): the number of non-overlapping occurrences, scanning left to right.
RECURSIVE CountFrom(_, _, _)
CountFrom(s, f, i) ==
    LET j == FindFrom(s, f, i)
    IN  IF j = 0 THEN 0 ELSE 1 + CountFrom(s, f, j + Len(f))

StrCount(s, f) == IF f = "" THEN Len(s) + 1 ELSE CountFrom(s, f, 1)


\* str.split(sep) for a one-character sep: the pieces between separators.
RECURSIVE SplitFrom(_, _, _)
SplitFrom(s, sep, start) ==
    LET j == FindFrom(s, sep, start)
    IN  IF j = 0 THEN << Rest(s, start) >>
        ELSE << SubSeq(s, start, j - 1) >> \o SplitFrom(s, sep, j + 1)

StrSplit(s, sep) == SplitFrom(s, sep, 1)

\* The characters str.splitlines() ends a line at; "\r\n" is one terminator.
LineBreaks == {"\n", "\r", "\f"}

\* The first position at or after i that holds a character of the set;
\* Len(s) + 1 when none does.
FindAnyOf(s, chars, i) ==
    LET at == { j \in i..Len(s) : Ch(s, j) \in chars }
    IN  IF at = {} THEN Len(s) + 1 ELSE MinOf(at)

\* The last position of the line terminator that starts at position j.
BreakEnd(s, j) ==
    IF Ch(s, j) = "\r" /\ j < Len(s) /\ Ch(s, j + 1) = "\n" THEN j + 1 ELSE j

\* str.splitlines(keepends): the lines of s from position start on, with
\* their terminators when keepends; no empty last line after a final
\* terminator.
RECURSIVE SplitLinesFrom(_, _, _)
SplitLinesFrom(s, keepends, start) ==
    LET j == FindAnyOf(s, LineBreaks, start)
    IN  IF start > Len(s) THEN << >>
        ELSE IF j > Len(s) THEN << Rest(s, start) >>
        ELSE << SubSeq(s, start, IF keepends THEN BreakEnd(s, j) ELSE j - 1) >>
                 \o SplitLinesFrom(s, keepends, BreakEnd(s, j) + 1)

SplitLines(s) == SplitLinesFrom(s, FALSE, 1)

\* str.lstrip(chars), str.rstrip(chars), str.strip(chars): leading and
\* trailing characters of the set removed.
LStrip(s, chars) ==
    LET keep == { j \in 1..Len(s) : Ch(s, j) \notin chars }
    IN  IF keep = {} THEN "" ELSE Rest(s, MinOf(keep))

RStrip(s, chars) ==
    LET keep == { j \in 1..Len(s) : Ch(s, j) \notin chars }
    IN  IF keep = {} THEN ""
        ELSE SubSeq(s, 1, CHOOSE k \in keep : \A m \in keep : m <= k)

StrStrip(s, chars) == RStrip(LStrip(s, chars), chars)

\* The characters str.strip() removes by default.
Whitespace == {" ", "\t", "\n", "\r", "\f"}


\* str.splitlines(keepends=True)
SplitLinesKeep(s) == SplitLinesFrom(s, TRUE, 1)

\* "".join(parts) with a separator between the parts.
RECURSIVE JoinFrom(_, _, _)
JoinFrom(parts, sep, k) ==
    IF k > Len(parts) THEN ""
    ELSE IF k = Len(parts) THEN parts[k]
    ELSE parts[k] \o sep \o JoinFrom(parts, sep, k + 1)

StrJoin(parts, sep) == JoinFrom(parts, sep, 1)

\* str.rfind(c), 1-based; 0 when absent.
RFind(s, c) ==
    LET at == { j \in 1..Len(s) : StartsAt(s, c, j) }
    IN  IF at = {} THEN 0 ELSE CHOOSE k \in at : \A m \in at : m <= k

\* The first position at or after i that holds c; Len(s) + 1 when none does.
FindChar(s, c, i) == FindAnyOf(s, {c}, i)

\* str.lower() on the letters the model uses.
UpperLetters == "ABCDEFGHIJKLMNOPQRSTUVWXYZ"
LowerLetters == "abcdefghijklmnopqrstuvwxyz"

LowerCh(c) ==
    LET k == FindChar(UpperLetters, c, 1)
    IN  IF k <= Len(UpperLetters) THEN Ch(LowerLetters, k) ELSE c

RECURSIVE LowerRange(_, _, _)
LowerRange(s, i, j) ==
    IF i > j THEN ""
    ELSE IF i = j THEN LowerCh(Ch(s, i))
    ELSE LowerRange(s, i, (i + j) \div 2) \o LowerRange(s, (i + j) \div 2 + 1, j)

StrLower(s) == LowerRange(s, 1, Len(s))

(***************************************************************************)
(* pathlib and os.path on POSIX.  A path is a string; an absolute path       *)
(* starts with "/".  No symbolic links: resolve() is lexical.                *)
(***************************************************************************)

\* The parts of a path: its segments, without empty and "." segments.
RECURSIVE DropDots(_, _)
DropDots(parts, k) ==
    IF k > Len(parts) THEN << >>
    ELSE IF parts[k] \in {"", "."} THEN DropDots(parts, k + 1)
    ELSE << parts[k] >> \o DropDots(parts, k + 1)

PathParts(p) == DropDots(StrSplit(p, "/"), 1)

IsAbsolute(p) == StartsWith(p, "/")

\* The string of a path with the given parts.
PathStr(abs, parts) ==
    IF abs THEN "/" \o StrJoin(parts, "/")
    ELSE IF parts = << >> THEN "."
    ELSE StrJoin(parts, "/")

\* Path(p): the path as pathlib normalises it.
PathOf(p) == PathStr(IsAbsolute(p), PathParts(p))

\* base / Path(rel): an absolute right operand replaces the left one.
PathJoin(base, rel) ==
    IF IsAbsolute(rel) THEN PathOf(rel) ELSE PathOf(base \o "/" \o rel)

\* Path.parent
PathParent(p) ==
    LET parts == PathParts(p)
    IN  IF parts = << >> THEN PathOf(p)
        ELSE PathStr(IsAbsolute(p), SubSeq(parts, 1, Len(parts) - 1))

\* Path.name
PathName(p) ==
    LET parts == PathParts(p)
    IN  IF parts = << >> THEN "" ELSE parts[Len(parts)]

\* Path.suffix: the last dot of the name and what follows it, unless the dot
\* is the first or the last character of the name.
PathSuffix(p) ==
    LET name == PathName(p)
        i == RFind(name, ".")
    IN  IF 1 < i /\ i < Len(name) THEN Rest(name, i) ELSE ""

\* ".." segments of an absolute path applied to what precedes them.
RECURSIVE ResolveParts(_, _, _)
ResolveParts(parts, k, acc) ==
    IF k > Len(parts) THEN acc
    ELSE IF parts[k] = ".."
         THEN ResolveParts(parts, k + 1,
                           IF acc = << >> THEN acc ELSE SubSeq(acc, 1, Len(acc) - 1))
    ELSE ResolveParts(parts, k + 1, Append(acc, parts[k]))

\* Path.resolve() of an absolute path.
PathResolve(p) == PathStr(TRUE, ResolveParts(PathParts(p), 1, << >>))

\* The length of the common prefix of two part lists.
RECURSIVE CommonLen(_, _, _)
CommonLen(a, b, k) ==
    IF k < Len(a) /\ k < Len(b) /\ a[k + 1] = b[k + 1] THEN CommonLen(a, b, k + 1) ELSE k

\* os.path.relpath(path, start) of two resolved absolute paths.
OsRelPath(path, start) ==
    LET pp == PathParts(path)
        sp == PathParts(start)
        c == CommonLen(pp, sp, 0)
        ups == [n \in 1..(Len(sp) - c) |-> ".."]
        rel == ups \o SubSeq(pp, c + 1, Len(pp))
    IN  IF rel = << >> THEN "." ELSE StrJoin(rel, "/")

(***************************************************************************)
(* sync.py: the path mapper.                                                *)
(***************************************************************************)

\* _normalize_pattern: backslashes become forward slashes.
NormalizePattern(value) == StrReplace(value, "\\", "/")

\* Mutant: the reverse flag is ignored, the mapping is never swapped.
ApplyOneMappingNoSwap(result, mapping, reverse) ==
    StrReplace(result, NormalizePattern(mapping.from), NormalizePattern(mapping.to))

\* One iteration of the loop of apply_path_mappings.
ApplyOneMapping(result, mapping, reverse) ==
    IF reverse
    THEN StrReplace(result, NormalizePattern(mapping.to), NormalizePattern(mapping.from))
    ELSE StrReplace(result, NormalizePattern(mapping.from), NormalizePattern(mapping.to))

RECURSIVE ApplyMappingsFrom(_, _, _, _)
ApplyMappingsFrom(result, mappings, reverse, k) ==
    IF k > Len(mappings) THEN result
    ELSE ApplyMappingsFrom(ApplyOneMapping(result, mappings[k], reverse), mappings, reverse, k + 1)

\* apply_path_mappings(source_rel, mappings, reverse)
ApplyPathMappings(source_rel, mappings, reverse) ==
    IF mappings = <<>> THEN source_rel
    ELSE ApplyMappingsFrom(source_rel, mappings, reverse, 1)


(***************************************************************************)
(* sync.py: the ignore matcher (GitIgnoreRule, GitIgnoreMatcher).            *)
(***************************************************************************)

\* The loop body of GitIgnoreMatcher.from_root: the rule of one line, as a
\* sequence of zero or one rules.
ParseIgnoreLine(raw_line) ==
    LET line0 == StrStrip(raw_line, Whitespace)
        negated == StartsWith(line0, "!")
        line1 == IF negated THEN Rest(line0, 2) ELSE line0
        rooted == StartsWith(line1, "/")
        line2 == IF rooted THEN Rest(line1, 2) ELSE line1
        directory_only == EndsWith(line2, "/")
        line3 == IF directory_only THEN SubSeq(line2, 1, Len(line2) - 1) ELSE line2
    IN  IF line0 = "" \/ StartsWith(line0, "#") THEN << >>
        ELSE IF line3 = "" THEN << >>
        ELSE << [pattern |-> line3, negated |-> negated,
                 directory_only |-> directory_only, rooted |-> rooted] >>

RECURSIVE ParseIgnoreLines(_, _)
ParseIgnoreLines(lines, k) ==
    IF k > Len(lines) THEN << >>
    ELSE ParseIgnoreLine(lines[k]) \o ParseIgnoreLines(lines, k + 1)

\* GitIgnoreMatcher.from_root, given the text of <root>/.gitignore.
ParseGitIgnore(content) == ParseIgnoreLines(SplitLines(content), 1)

\* re.match of the regular expression _gitignore_pattern_to_regex builds from
\* pattern[pi..], against s[si..] up to the end of s: "**" is ".*", "*" is
\* "[^/]*", "?" is "[^/]", any other character is itself.
RECURSIVE GiMatchAt(_, _, _, _)
GiMatchAt(pattern, pi, s, si) ==
    IF pi > Len(pattern) THEN si > Len(s)
    ELSE IF Ch(pattern, pi) = "*"
         THEN IF pi + 1 <= Len(pattern) /\ Ch(pattern, pi + 1) = "*"
              THEN \E k \in si..(Len(s) + 1) : GiMatchAt(pattern, pi + 2, s, k)
              ELSE \E k \in si..(Len(s) + 1) :
                       /\ ~Contains(SubSeq(s, si, k - 1), "/")
                       /\ GiMatchAt(pattern, pi + 1, s, k)
    ELSE IF Ch(pattern, pi) = "?"
         THEN si <= Len(s) /\ Ch(s, si) # "/" /\ GiMatchAt(pattern, pi + 1, s, si + 1)
    ELSE si <= Len(s) /\ Ch(s, si) = Ch(pattern, pi) /\ GiMatchAt(pattern, pi + 1, s, si + 1)

\* re.match(_gitignore_pattern_to_regex(pattern, rooted), s): anchored at the
\* start when rooted, else at the start or after any "/".
GitIgnoreRegexMatch(pattern, rooted, s) ==
    \/ GiMatchAt(pattern, 1, s, 1)
    \/ /\ ~rooted
       /\ \E k \in 2..(Len(s) + 1) : Ch(s, k - 1) = "/" /\ GiMatchAt(pattern, 1, s, k)

\* _gitignore_rule_matches(rule, source_rel)
GitIgnoreRuleMatches(rule, source_rel) ==
    LET normalized == StrStrip(source_rel, {"/"})
        parts == StrSplit(normalized, "/")
    IN  IF normalized = "" THEN FALSE
        ELSE IF /\ rule.directory_only
                /\ (normalized = rule.pattern \/ StartsWith(normalized, rule.pattern \o "/"))
             THEN TRUE
        ELSE IF GitIgnoreRegexMatch(rule.pattern, rule.rooted, normalized) THEN TRUE
        ELSE IF ~Contains(rule.pattern, "/")
             THEN \E n \in 1..Len(parts) : GitIgnoreRegexMatch(rule.pattern, TRUE, parts[n])
        ELSE FALSE

\* Mutant: a matching rule can only set the state, a negated rule never
\* clears it.
IgnoreStepNoReinclude(state, rule, source_rel) ==
    IF GitIgnoreRuleMatches(rule, source_rel) THEN state \/ ~rule.negated ELSE state

\* The loop body of GitIgnoreMatcher.is_ignored.
IgnoreStep(state, rule, source_rel) ==
    IF GitIgnoreRuleMatches(rule, source_rel) THEN ~rule.negated ELSE state

RECURSIVE IgnoreFold(_, _, _, _)
IgnoreFold(state, rules, source_rel, k) ==
    IF k > Len(rules) THEN state
    ELSE IgnoreFold(IgnoreStep(state, rules[k], source_rel), rules, source_rel, k + 1)

\* GitIgnoreMatcher.is_ignored(source_rel)
IsIgnored(rules, source_rel) == IgnoreFold(FALSE, rules, source_rel, 1)


(***************************************************************************)
(* rewriter.py: generic replacement and the solution-file rewriter.          *)
(***************************************************************************)

\* The loop of apply_text_replacements from replacement k on; the result is
\* the updated text and the hits counted.
RECURSIVE ApplyReplacementsFrom(_, _, _, _)
ApplyReplacementsFrom(updated, total_hits, replacements, k) ==
    IF k > Len(replacements) THEN [text |-> updated, hits |-> total_hits]
    ELSE LET hits == StrCount(updated, replacements[k].from)
         IN  IF hits # 0
             THEN ApplyReplacementsFrom(
                      StrReplace(updated, replacements[k].from, replacements[k].to),
                      total_hits + hits, replacements, k + 1)
             ELSE ApplyReplacementsFrom(updated, total_hits, replacements, k + 1)

\* apply_text_replacements(content, replacements)
ApplyTextReplacements(content, replacements) ==
    ApplyReplacementsFrom(content, 0, replacements, 1)

\* Regular-expression pieces of PROJECT_LINE_RE; a cursor of 0 is a failed
\* match.  Literal text at the cursor:
ReLit(s, i, lit) == IF i > 0 /\ StartsAt(s, lit, i) THEN i + Len(lit) ELSE 0

\* \s*: the cursor after any run of white space.
ReSpaces(s, i) ==
    IF i = 0 THEN 0
    ELSE LET stop == { j \in i..Len(s) : Ch(s, j) \notin Whitespace }
         IN  IF stop = {} THEN Len(s) + 1 ELSE MinOf(stop)

\* [^c]+: one or more characters other than c; the run ends at the first c.
ReNotPlus(s, i, c) ==
    IF i = 0 THEN 0
    ELSE LET j == FindChar(s, c, i) IN IF j = i THEN 0 ELSE j

\* PROJECT_LINE_RE, whose three groups are
\*   ^(Project\("\{[^\}]+\}"\)\s*=\s*"[^"]+",\s*")([^"]+)("\s*,\s*"\{[^\}]+\}".*)$
\* The cursor after group 1, matched from the start of the line.
ProjectLinePrefixEnd(line) ==
    ReLit(line, ReSpaces(line,
        ReLit(line, ReNotPlus(line,
            ReLit(line, ReSpaces(line,
                ReLit(line, ReSpaces(line,
                    ReLit(line, ReNotPlus(line,
                        ReLit(line, 1, "Project(\"{"), "}"), "}\")")), "=")), "\""),
            "\""), "\",")), "\"")

\* The cursor after the part of group 3 that precedes ".*", matched from b1.
ProjectLineSuffixEnd(line, b1) ==
    ReLit(line, ReNotPlus(line,
        ReLit(line, ReSpaces(line,
            ReLit(line, ReSpaces(line,
                ReLit(line, b1, "\"")), ",")), "\"{"), "}"), "}\"")

\* The groups, given the cursors a8 after group 1 and b1 after group 2.
ProjectLineGroups(line, a8, b1) ==
    IF ProjectLineSuffixEnd(line, b1) = 0
    THEN [ok |-> FALSE, prefix |-> "", raw_path |-> "", suffix |-> ""]
    ELSE [ok |-> TRUE,
          prefix |-> SubSeq(line, 1, a8 - 1),
          raw_path |-> SubSeq(line, a8, b1 - 1),
          suffix |-> Rest(line, b1)]

\* PROJECT_LINE_RE.match(line): whether it matches, and its three groups.
MatchProjectLine(line) ==
    ProjectLineGroups(line, ProjectLinePrefixEnd(line),
                      ReNotPlus(line, ProjectLinePrefixEnd(line), "\""))

KNOWN_PROJECT_EXTENSIONS ==
    {".csproj", ".fsproj", ".vbproj", ".vcxproj", ".shproj", ".sqlproj", ".dcproj", ".wapproj"}

\* Mutant: every quoted path counts as the path of a project file.
LooksLikeProjectFilePathAlways(value) == TRUE

\* _looks_like_project_file_path(value)
LooksLikeProjectFilePath(value) ==
    StrLower(PathSuffix(StrReplace(value, "\\", "/"))) \in KNOWN_PROJECT_EXTENSIONS

\* The absolute path a quoted project path of a solution file refers to.
SlnProjectAbs(raw_path, source_sln_abs) ==
    PathResolve(PathJoin(PathParent(source_sln_abs), StrReplace(raw_path, "\\", "/")))

\* Mutant: the new reference is computed relative to the source solution's
\* directory instead of the destination solution's.
SlnNewRelFromSource(mapped_abs, source_sln_abs, target_sln_abs) ==
    StrReplace(OsRelPath(mapped_abs, PathResolve(PathParent(source_sln_abs))), "/", "\\")

\* The rewritten reference: the mapped path relative to the directory of the
\* destination solution file, with backslashes.
SlnNewRel(mapped_abs, source_sln_abs, target_sln_abs) ==
    StrReplace(OsRelPath(mapped_abs, PathResolve(PathParent(target_sln_abs))), "/", "\\")

SlnOrphanWarning(source_sln_abs, raw_path) ==
    "orphan project reference in " \o PathResolve(source_sln_abs) \o ": " \o raw_path
        \o " (not found in source map)"

\* Mutant: an orphan reference is passed over without a warning.
SlnOrphanLineSilent(line, warning, orphan_policy) ==
    [out |-> line, warnings |-> << >>, raised |-> FALSE]

\* What the loop body does with an orphan reference: the warning, and under
\* policy "strict" the ValueError.
SlnOrphanLine(line, warning, orphan_policy) ==
    [out |-> line, warnings |-> << warning >>, raised |-> orphan_policy = "strict"]

\* The loop body of rewrite_sln_project_paths for one line (with its
\* terminator): the output line, the warnings added, whether it raises.
RewriteSlnLine(line, source_sln_abs, target_sln_abs, abs_map, orphan_policy) ==
    LET m == MatchProjectLine(RStrip(line, {"\r", "\n"}))
        project_abs == SlnProjectAbs(m.raw_path, source_sln_abs)
        line_ending == IF EndsWith(line, "\r\n") THEN "\r\n" ELSE "\n"
    IN  IF ~m.ok THEN [out |-> line, warnings |-> << >>, raised |-> FALSE]
        ELSE IF ~LooksLikeProjectFilePath(m.raw_path)
             THEN [out |-> line, warnings |-> << >>, raised |-> FALSE]
        ELSE IF project_abs \notin DOMAIN abs_map
             THEN SlnOrphanLine(line, SlnOrphanWarning(source_sln_abs, m.raw_path), orphan_policy)
        ELSE [out |-> m.prefix
                        \o SlnNewRel(abs_map[project_abs], source_sln_abs, target_sln_abs)
                        \o m.suffix \o line_ending,
              warnings |-> << >>, raised |-> FALSE]

\* The loop of rewrite_sln_project_paths from line k on.
RECURSIVE RewriteSlnLines(_, _, _, _, _, _, _, _)
RewriteSlnLines(lines, k, text, warnings, source_sln_abs, target_sln_abs, abs_map, orphan_policy) ==
    IF k > Len(lines) THEN [raised |-> FALSE, text |-> text, warnings |-> warnings]
    ELSE LET r == RewriteSlnLine(lines[k], source_sln_abs, target_sln_abs, abs_map, orphan_policy)
         IN  IF r.raised
             THEN [raised |-> TRUE, text |-> "", warnings |-> warnings \o r.warnings]
             ELSE RewriteSlnLines(lines, k + 1, text \o r.out, warnings \o r.warnings,
                                  source_sln_abs, target_sln_abs, abs_map, orphan_policy)

\* rewrite_sln_project_paths: raised is the ValueError of policy "strict"
\* (then nothing is returned); otherwise the new text and the warnings.
RewriteSlnProjectPaths(content, source_sln_abs, target_sln_abs, abs_map, orphan_policy) ==
    RewriteSlnLines(SplitLinesKeep(content), 1, "", << >>,
                    source_sln_abs, target_sln_abs, abs_map, orphan_policy)

(***************************************************************************)
(* rewriter.py: rewrite_csproj_include_paths.                                *)
(***************************************************************************)

\* INCLUDE_ATTR_RE tried at position i:  (Include\s*=\s*")([^"]+)(")
\* The cursor after group 1 (0 when group 1 does not match there).
IncludeValueStart(s, i) ==
    ReLit(s, ReSpaces(s, ReLit(s, ReSpaces(s, ReLit(s, i, "Include")), "=")), "\"")

\* The position of the closing quote, given the cursor after group 1 (0 when
\* the rest of the pattern does not match).
IncludeValueEnd(s, vstart) ==
    IF ReLit(s, ReNotPlus(s, vstart, "\""), "\"") = 0 THEN 0
    ELSE ReNotPlus(s, vstart, "\"")

\* _replace(match): the new value of one Include attribute.
CsprojNewValue(value, source_dir, target_dir, abs_map) ==
    IF IsAbsolute(StrReplace(value, "\\", "/")) THEN value
    ELSE IF PathResolve(PathJoin(source_dir, StrReplace(value, "\\", "/"))) \notin DOMAIN abs_map
         THEN value
    ELSE StrReplace(
             OsRelPath(abs_map[PathResolve(PathJoin(source_dir, StrReplace(value, "\\", "/")))],
                       target_dir),
             "/", "\\")

\* INCLUDE_ATTR_RE.sub(_replace, content) from position i on; j is the next
\* occurrence of "Include", vstart and vend delimit the value matched there.
RECURSIVE CsprojSubFrom(_, _, _, _, _)
CsprojSubAt(s, i, j, vstart, vend, source_dir, target_dir, abs_map) ==
    IF j = 0 THEN Rest(s, i)
    ELSE IF vstart = 0 \/ vend = 0
         THEN SubSeq(s, i, j) \o CsprojSubFrom(s, j + 1, source_dir, target_dir, abs_map)
    ELSE SubSeq(s, i, vstart - 1)
             \o CsprojNewValue(SubSeq(s, vstart, vend - 1), source_dir, target_dir, abs_map)
             \o "\""
             \o CsprojSubFrom(s, vend + 1, source_dir, target_dir, abs_map)

CsprojSubNext(s, i, j, vstart, source_dir, target_dir, abs_map) ==
    CsprojSubAt(s, i, j, vstart, IncludeValueEnd(s, vstart), source_dir, target_dir, abs_map)

CsprojSubFind(s, i, j, source_dir, target_dir, abs_map) ==
    CsprojSubNext(s, i, j, IF j = 0 THEN 0 ELSE IncludeValueStart(s, j),
                  source_dir, target_dir, abs_map)

CsprojSubFrom(s, i, source_dir, target_dir, abs_map) ==
    CsprojSubFind(s, i, FindFrom(s, "Include", i), source_dir, target_dir, abs_map)

\* rewrite_csproj_include_paths
RewriteCsprojIncludePaths(content, source_project_abs, target_project_abs, abs_map) ==
    CsprojSubFrom(content, 1, PathResolve(PathParent(source_project_abs)),
                  PathResolve(PathParent(target_project_abs)), abs_map)

\* apply_text_replacements_csproj: imported by engine.py but defined nowhere
\* in rewriter.py.  The specification gives a project-definition file
\* "generic replacement first, then rewrite Include-attribute paths"; the
\* generic replacement is apply_text_replacements.
ApplyTextReplacementsCsproj(content, replacements) ==
    ApplyTextReplacements(content, replacements)

(***************************************************************************)
(* sync.py: glob matching, inclusion, content rule selection.                *)
(***************************************************************************)

\* The printable ASCII characters in code-point order: 32 to 95, 97 to 126.
AsciiToUnderscore ==
    " !\"#$%&'()*+,-./0123456789:;<=>?@ABCDEFGHIJKLMNOPQRSTUVWXYZ[\\]^_"

AsciiFromLowerA == "abcdefghijklmnopqrstuvwxyz{|}~"

\* ord(c)
CodePoint(c) ==
    IF Contains(AsciiFromLowerA, c) THEN FindFrom(AsciiFromLowerA, c, 1) + 96
    ELSE FindFrom(AsciiToUnderscore, c, 1) + 31

\* a < b for str: the first differing character decides, else the length.
StrLess(a, b) ==
    LET d == { i \in 1..Len(a) : i <= Len(b) /\ Ch(a, i) # Ch(b, i) }
    IN  IF d = {} THEN Len(a) < Len(b)
        ELSE CodePoint(Ch(a, MinOf(d))) < CodePoint(Ch(b, MinOf(d)))

\* p < q for two paths with the same root: their parts are compared as
\* tuples of strings.
PartsLess(a, b) ==
    LET d == { i \in 1..Len(a) : i <= Len(b) /\ a[i] # b[i] }
    IN  IF d = {} THEN Len(a) < Len(b)
        ELSE StrLess(a[MinOf(d)], b[MinOf(d)])

PathLess(p, q) == PartsLess(PathParts(p), PathParts(q))

\* sorted(paths)
RECURSIVE SortPaths(_)
SortPathsFrom(S, first) == << first >> \o SortPaths(S \ {first})

SortPaths(S) ==
    IF S = {} THEN << >>
    ELSE SortPathsFrom(S, CHOOSE p \in S : \A q \in S : p = q \/ PathLess(p, q))

\* fnmatchcase(name, pat) for patterns of literal characters, "*" and "?"
\* (no bracket expressions): "*" is any run of characters, "/" included.
RECURSIVE FnMatchAt(_, _, _, _)
FnMatchAt(s, i, pat, j) ==
    IF j > Len(pat) THEN i > Len(s)
    ELSE IF Ch(pat, j) = "*"
         THEN \E k \in i..(Len(s) + 1) : FnMatchAt(s, k, pat, j + 1)
    ELSE IF Ch(pat, j) = "?"
         THEN i <= Len(s) /\ FnMatchAt(s, i + 1, pat, j + 1)
    ELSE i <= Len(s) /\ Ch(s, i) = Ch(pat, j) /\ FnMatchAt(s, i + 1, pat, j + 1)

FnMatchCase(name, pat) == FnMatchAt(name, 1, pat, 1)

\* PurePosixPath(source_rel).match(pattern) for a relative path and a
\* pattern with at least one part: a relative pattern is matched part by
\* part from the right, an absolute pattern never matches a relative path.
PathMatchParts(parts, pat_parts) ==
    /\ Len(pat_parts) <= Len(parts)
    /\ \A k \in 1..Len(pat_parts) :
           FnMatchCase(parts[Len(parts) - Len(pat_parts) + k], pat_parts[k])

PurePathMatch(source_rel, pattern) ==
    /\ ~IsAbsolute(pattern)
    /\ PathMatchParts(PathParts(source_rel), PathParts(pattern))

\* _glob_match(source_rel, pattern)
GlobMatch(source_rel, pattern) ==
    \/ pattern \in {"**", "**/*", "*"}
    \/ PurePathMatch(source_rel, pattern)
    \/ FnMatchCase(source_rel, pattern)
    \/ /\ StartsWith(pattern, "**/")
       /\ Rest(pattern, 4) # ""
       /\ \/ PurePathMatch(source_rel, Rest(pattern, 4))
          \/ FnMatchCase(source_rel, Rest(pattern, 4))
    \/ /\ Contains(pattern, "/**/")
       /\ \/ PurePathMatch(source_rel, StrReplace(pattern, "/**/", "/"))
          \/ FnMatchCase(source_rel, StrReplace(pattern, "/**/", "/"))

DEFAULT_HARD_EXCLUDES == << ".git/**" >>

\* any(_glob_match(source_rel, pattern) for pattern in patterns)
AnyGlobMatch(source_rel, patterns) ==
    \E k \in 1..Len(patterns) : GlobMatch(source_rel, patterns[k])

\* Path(source_rel).suffix.lower()
LowerSuffix(source_rel) == StrLower(PathSuffix(source_rel))

\* _is_included(source_rel, includes, excludes, ignore_extensions)
IsIncluded(source_rel, includes, excludes, ignore_extensions) ==
    IF AnyGlobMatch(source_rel, DEFAULT_HARD_EXCLUDES) THEN FALSE
    ELSE IF LowerSuffix(source_rel) # ""
            /\ \E k \in 1..Len(ignore_extensions) :
                   ignore_extensions[k] = LowerSuffix(source_rel)
         THEN FALSE
    ELSE IF includes # << >> /\ ~AnyGlobMatch(source_rel, includes) THEN FALSE
    ELSE IF excludes # << >> /\ AnyGlobMatch(source_rel, excludes) THEN FALSE
    ELSE TRUE

\* Replacement(from_value=item.to_value, to_value=item.from_value)
SwapReplacement(item) == [from |-> item.to, to |-> item.from]

SwapAll(items) == [k \in 1..Len(items) |-> SwapReplacement(items[k])]

\* Whether a rule of select_replacements applies to the file.
RuleApplies(source_rel, rule) ==
    /\ rule.extensions = << >>
          \/ \E k \in 1..Len(rule.extensions) : rule.extensions[k] = LowerSuffix(source_rel)
    /\ GlobMatch(source_rel, rule.path_glob)

\* select_replacements(source_rel, rules, reverse), from rule k on.
RECURSIVE SelectReplacementsFrom(_, _, _, _)
SelectReplacementsFrom(source_rel, rules, reverse, k) ==
    IF k > Len(rules) THEN << >>
    ELSE (IF ~RuleApplies(source_rel, rules[k]) THEN << >>
          ELSE IF reverse THEN SwapAll(rules[k].replacements)
          ELSE rules[k].replacements)
         \o SelectReplacementsFrom(source_rel, rules, reverse, k + 1)

SelectReplacements(source_rel, rules, reverse) ==
    SelectReplacementsFrom(source_rel, rules, reverse, 1)

\* mapping_replacements_from_path_mappings(mappings, reverse): the values are
\* taken as they are, without _normalize_pattern.
MappingReplacements(mappings, reverse) ==
    [k \in 1..Len(mappings) |->
        IF reverse THEN [from |-> mappings[k].to, to |-> mappings[k].from]
        ELSE [from |-> mappings[k].from, to |-> mappings[k].to]]

\* Mutant: the two lists are joined and every duplicate is kept.
MergeReplacementsKeepAll(primary, fallback) == primary \o fallback

\* _merge_replacements(primary, fallback): the first occurrence of every
\* (from, to) pair, in order.
MergeAll(items) ==
    SelectSeq([k \in 1..Len(items) |-> [item |-> items[k], k |-> k]],
              LAMBDA e : \A m \in 1..(e.k - 1) : items[m] # e.item)

MergeReplacements(primary, fallback) ==
    [k \in 1..Len(MergeAll(primary \o fallback)) |-> MergeAll(primary \o fallback)[k].item]

(***************************************************************************)
(* The file system.  A tree is a function from the absolute paths of its    *)
(* regular files to file records, with the set of its directories.  A file  *)
(* record holds the text of the file (data), whether its bytes hold a zero   *)
(* byte (nul) and whether one of the candidate encodings of _safe_read_text  *)
(* decodes it (decodes).  Paths hold no symbolic links.                      *)
(***************************************************************************)

TextFile(data) == [data |-> data, nul |-> FALSE, decodes |-> TRUE]

\* The directories above an absolute path, the root "/" included.
Ancestors(p) ==
    { PathStr(TRUE, SubSeq(PathParts(p), 1, k)) : k \in 0..(Len(PathParts(p)) - 1) }

\* The directories that the operating system passes through on the way to
\* an absolute path that may have ".." segments: each prefix of the path,
\* resolved.  Path.mkdir(parents=True, exist_ok=True) of the parent of the
\* path leaves all of them in existence.
PassedDirs(p) ==
    { PathStr(TRUE, ResolveParts(SubSeq(PathParts(p), 1, k), 1, << >>)) :
          k \in 0..(Len(PathParts(p)) - 1) }

\* sorted(path for path in root.rglob("*") if path.is_file())
AllFiles(files, root) ==
    SortPaths({ p \in DOMAIN files : StartsWith(p, root \o "/") })

\* _to_posix(source_abs.relative_to(root))
RelativeTo(p, root) == Rest(p, Len(root) + 2)

\* Path.read_text: universal newlines turn "\r\n" and "\r" into "\n".
ReadText(data) == StrReplace(StrReplace(data, "\r\n", "\n"), "\r", "\n")

\* Mutant: a file that no encoding decodes is read as text.
SafeReadTextLenient(file) ==
    [none |-> FALSE, text |-> ReadText(file.data), nul |-> file.nul]

\* _safe_read_text(path)[0] of an existing file; None is modelled by a record
\* without text.
SafeReadText(file) ==
    IF file.decodes THEN [none |-> FALSE, text |-> ReadText(file.data), nul |-> file.nul]
    ELSE [none |-> TRUE, text |-> "", nul |-> FALSE]

TEXT_EXTENSIONS ==
    {".py", ".cs", ".razor", ".cshtml", ".xaml", ".razor.css", ".sln", ".csproj", ".props",
     ".targets", ".json", ".yaml", ".yml", ".md", ".txt", ".xml", ".config"}

\* should_treat_as_text(path)
ShouldTreatAsText(path) == LowerSuffix(path) \in TEXT_EXTENSIONS

\* _is_binary_file(path): a file without a known text extension is binary
\* when its (non-empty) sample holds a zero byte.
IsBinaryFile(path, file) ==
    IF ShouldTreatAsText(path) THEN FALSE ELSE file.nul

(***************************************************************************)
(* sync.py: build_sync_plan and build_sync_plan_reverse.                     *)
(***************************************************************************)

\* GitIgnoreMatcher.from_root(root)
IgnoreRulesOf(files, root) ==
    IF (root \o "/.gitignore") \in DOMAIN files
    THEN ParseGitIgnore(files[root \o "/.gitignore"].data)
    ELSE << >>

\* Mutant: the include and exclude filters are asked before the ignore
\* matcher, so an ignored file that passes them becomes an action.
PlanVerdictFiltersFirst(source_rel, rules, config) ==
    IF IsIncluded(source_rel, config.include_globs, config.exclude_globs,
                  config.ignore_extensions)
    THEN "action"
    ELSE IF IsIgnored(rules, source_rel) THEN "ignored"
    ELSE "excluded"

\* What the loop of build_sync_plan does with one walked file: "ignored"
\* (recorded in ignored_by_git), "excluded" (dropped) or "action".
PlanVerdict(source_rel, rules, config) ==
    IF IsIgnored(rules, source_rel) THEN "ignored"
    ELSE IF ~IsIncluded(source_rel, config.include_globs, config.exclude_globs,
                        config.ignore_extensions)
         THEN "excluded"
    ELSE "action"

\* The replacement list of an action.
ActionReplacements(source_rel, is_binary, config, reverse) ==
    IF is_binary THEN SelectReplacements(source_rel, config.content_rules, reverse)
    ELSE MergeReplacements(SelectReplacements(source_rel, config.content_rules, reverse),
                           MappingReplacements(config.path_mappings, reverse))

\* FileAction(...) of one file that passed the filters.
PlanAction(source_rel, files, src_root, dst_root, config, reverse) ==
    [source_abs  |-> src_root \o "/" \o source_rel,
     source_rel  |-> source_rel,
     target_abs  |-> PathJoin(dst_root,
                              ApplyPathMappings(source_rel, config.path_mappings, reverse)),
     target_rel  |-> ApplyPathMappings(source_rel, config.path_mappings, reverse),
     is_binary   |-> IsBinaryFile(source_rel, files[src_root \o "/" \o source_rel]),
     replacements |->
         ActionReplacements(source_rel,
                            IsBinaryFile(source_rel, files[src_root \o "/" \o source_rel]),
                            config, reverse)]

PlanOfActions(actions, ignored_by_git) ==
    [actions |-> actions,
     source_to_target_rel |->
         [r \in { actions[k].source_rel : k \in 1..Len(actions) } |->
             actions[CHOOSE k \in 1..Len(actions) : actions[k].source_rel = r].target_rel],
     skipped_binary |->
         [k \in 1..Len(SelectSeq(actions, LAMBDA a : a.is_binary)) |->
             SelectSeq(actions, LAMBDA a : a.is_binary)[k].source_rel],
     ignored_by_git |-> ignored_by_git]

PlanOfKept(kept, ignored_by_git, files, src_root, dst_root, config, reverse) ==
    PlanOfActions([k \in 1..Len(kept) |->
                      PlanAction(kept[k], files, src_root, dst_root, config, reverse)],
                  ignored_by_git)

PlanOfWalk(walked, rules, files, src_root, dst_root, config, reverse) ==
    PlanOfKept(SelectSeq(walked, LAMBDA r : PlanVerdict(r, rules, config) = "action"),
               SelectSeq(walked, LAMBDA r : PlanVerdict(r, rules, config) = "ignored"),
               files, src_root, dst_root, config, reverse)

WalkedOf(sorted, src_root) == [k \in 1..Len(sorted) |-> RelativeTo(sorted[k], src_root)]

\* build_sync_plan (reverse = FALSE) and build_sync_plan_reverse (TRUE) on
\* the tree under src_root.
BuildSyncPlan(files, src_root, dst_root, config, reverse) ==
    PlanOfWalk(WalkedOf(AllFiles(files, src_root), src_root), IgnoreRulesOf(files, src_root),
               files, src_root, dst_root, config, reverse)

\* abs_map of run_sync: a later action replaces an earlier one with the same
\* source path.
AbsMapOf(actions) ==
    [p \in { PathResolve(actions[k].source_abs) : k \in 1..Len(actions) } |->
        PathResolve(actions[
            CHOOSE k \in 1..Len(actions) :
                /\ PathResolve(actions[k].source_abs) = p
                /\ \A m \in (k + 1)..Len(actions) : PathResolve(actions[m].source_abs) # p
        ].target_abs)]

(***************************************************************************)
(* engine.py: what run_sync computes for one text action.                    *)
(***************************************************************************)

\* The result of the rewriting of one action: whether the solution rewriter
\* raised, the new text, the replacement hits and the warnings to report.
Rewritten(replaced, warnings) ==
    [raised |-> FALSE, text |-> replaced.text, hits |-> replaced.hits, warnings |-> warnings]

\* .sln: rewrite_sln_project_paths, then apply_text_replacements.
SlnOutput(sln, replacements) ==
    IF sln.raised THEN [raised |-> TRUE, text |-> "", hits |-> 0, warnings |-> sln.warnings]
    ELSE Rewritten(ApplyTextReplacements(sln.text, replacements), sln.warnings)

\* .csproj: apply_text_replacements_csproj, then rewrite_csproj_include_paths.
CsprojOutput(replaced, action, abs_map) ==
    [raised |-> FALSE,
     text |-> RewriteCsprojIncludePaths(replaced.text, action.source_abs, action.target_abs,
                                        abs_map),
     hits |-> replaced.hits,
     warnings |-> << >>]

\* Lines 82 to 106 of run_sync.
ActionOutput(action, source_text, abs_map, orphan_policy) ==
    IF LowerSuffix(action.source_abs) = ".sln"
    THEN SlnOutput(RewriteSlnProjectPaths(source_text, action.source_abs, action.target_abs,
                                          abs_map, orphan_policy),
                   action.replacements)
    ELSE IF LowerSuffix(action.source_abs) = ".csproj"
    THEN CsprojOutput(ApplyTextReplacementsCsproj(source_text, action.replacements),
                      action, abs_map)
    ELSE Rewritten(ApplyTextReplacements(source_text, action.replacements), << >>)

(***************************************************************************)
(* Bounds and input sets of the path-mapper specification.                   *)
(***************************************************************************)

MaxPathLen == 3
MaxMappings == 2

\* Characters of the relative paths handed to the mapper.
PathChars == {"a", "b", "/"}

\* from-values (validate_config rejects an empty one) and to-values (which
\* may be empty) of the mappings tried; "a\\b" exercises _normalize_pattern.
FromPool == {"a", "b", "ab", "a\\b"}
ToPool == {"", "b", "x", "y", "xy"}

RECURSIVE StringsOfLen(_, _)
StringsOfLen(alphabet, n) ==
    IF n = 0 THEN {""}
    ELSE { c \o s : c \in alphabet, s \in StringsOfLen(alphabet, n - 1) }

StringsUpTo(alphabet, n) == UNION { StringsOfLen(alphabet, k) : k \in 0..n }

\* What Path.as_posix() of a relative file path can be: non-empty segments.
IsRelPosix(p) ==
    /\ p # ""
    /\ ~StartsWith(p, "/")
    /\ ~EndsWith(p, "/")
    /\ ~Contains(p, "//")

RelPaths == { p \in StringsUpTo(PathChars, MaxPathLen) : IsRelPosix(p) }

MappingPool == { [from |-> f, to |-> t] : f \in FromPool, t \in ToPool }

SeqsUpTo(S, n) == UNION { [1..k -> S] : k \in 0..n }

MappingLists == SeqsUpTo(MappingPool, MaxMappings)

(***************************************************************************)
(* SpecMap: apply_path_mappings forward, then in reverse on the result.      *)
(***************************************************************************)

\* The path mapper at rest (in the specifications of the other components).
MapIdle ==
    /\ pmPath = ""
    /\ pmMappings = << >>
    /\ pmFwd = ""
    /\ pmBack = ""
    /\ pmStage = "idle"

\* The ignore matcher at rest.
IgnoreIdle ==
    /\ giContent = ""
    /\ giRules = << >>
    /\ giPath = ""
    /\ giVerdict = FALSE
    /\ giStage = "idle"

\* The solution rewriter at rest.
SlnIdle ==
    /\ slContent = ""
    /\ slSrcSln = ""
    /\ slDstSln = ""
    /\ slAbsMap = << >>
    /\ slPolicy = "warn"
    /\ slText = ""
    /\ slWarnings = << >>
    /\ slStage = "idle"

\* The sync executor at rest (in the specifications of the other components).
EngineIdle ==
    /\ fsFiles = << >>
    /\ fsDirs = {}
    /\ rsConfig = << >>
    /\ rsPc = "off"
    /\ rsDryRun = FALSE
    /\ rsSyncback = FALSE
    /\ rsPlan = << >>
    /\ rsAbsMap = << >>
    /\ rsIndex = 0
    /\ rsReport = << >>
    /\ rsWritten = << >>
    /\ rsHistory = << >>
    /\ fsStart = << >>
    /\ fsInitial = << >>

InitMap ==
    /\ EngineIdle
    /\ IgnoreIdle
    /\ SlnIdle
    /\ pmPath \in RelPaths
    /\ pmMappings \in MappingLists
    /\ pmFwd = ""
    /\ pmBack = ""
    /\ pmStage = "input"

MapForward ==
    /\ pmStage = "input"
    /\ pmFwd' = ApplyPathMappings(pmPath, pmMappings, FALSE)
    /\ pmStage' = "mapped"
    /\ UNCHANGED <<pmPath, pmMappings, pmBack>>
    /\ UNCHANGED <<giVars, slVars, enVars>>

MapReverse ==
    /\ pmStage = "mapped"
    /\ pmBack' = ApplyPathMappings(pmFwd, pmMappings, TRUE)
    /\ pmStage' = "back"
    /\ UNCHANGED <<pmPath, pmMappings, pmFwd>>
    /\ UNCHANGED <<giVars, slVars, enVars>>

NextMap == MapForward \/ MapReverse

SpecMap == InitMap /\ [][NextMap]_vars

(***************************************************************************)
(* C2: round trip of the path mapper.                                        *)
(***************************************************************************)

\* The claim's precondition: no mapping's to-value is a substring of another
\* mapping's from-value.
NoMappingCollision(M) ==
    \A i, j \in 1..Len(M) :
        i # j => ~Contains(NormalizePattern(M[j].from), NormalizePattern(M[i].to))

\* Every to-value is non-empty and made of characters that occur neither in
\* the path, nor in any from-value, nor in another mapping's to-value.
FreshTargets(p, M) ==
    \A i \in 1..Len(M) :
        LET t == NormalizePattern(M[i].to) IN
        /\ t # ""
        /\ Chars(t) \cap Chars(p) = {}
        /\ \A j \in 1..Len(M) :
               /\ Chars(t) \cap Chars(NormalizePattern(M[j].from)) = {}
               /\ (j # i => Chars(t) \cap Chars(NormalizePattern(M[j].to)) = {})

\* C2 as claimed: whenever no mapping's to-value is a substring of another
\* mapping's from-value, mapping a path forward and then in reverse gives the
\* path back.
C2_RoundTripAsClaimed ==
    (pmStage = "back" /\ NoMappingCollision(pmMappings)) => pmBack = pmPath

\* C2 amended: the round trip gives the path back whenever every to-value is
\* non-empty and shares no character with the path, with any from-value or
\* with another mapping's to-value (values after separator normalisation).
C2_RoundTripFreshTargets ==
    (pmStage = "back" /\ FreshTargets(pmPath, pmMappings)) => pmBack = pmPath

\* Two mappings both change the path and the reverse pass restores it.
C2_Witness ==
    /\ pmStage = "back"
    /\ Len(pmMappings) = 2
    /\ FreshTargets(pmPath, pmMappings)
    /\ ApplyOneMapping(pmPath, pmMappings[1], FALSE) # pmPath
    /\ ApplyOneMapping(ApplyOneMapping(pmPath, pmMappings[1], FALSE), pmMappings[2], FALSE)
           # ApplyOneMapping(pmPath, pmMappings[1], FALSE)
    /\ pmBack = pmPath

(***************************************************************************)
(* SpecIgnore: a .gitignore file is parsed (from_root), then is_ignored is   *)
(* asked about one relative path.                                            *)
(***************************************************************************)

MaxIgnoreLines == 2

\* Lines a .gitignore file is made of: directory rules, negations, rooted
\* rules, wildcards, a comment, a blank line and padded lines.
IgnoreLinePool ==
    { "build/", "!build/keep.txt", "*.log", "/a.log", "!a.log", "# c", "",
      " b/** ", "?.txt", "!/build/" }

\* Relative paths asked about.
IgnorePathPool ==
    { "build/keep.txt", "build/other.txt", "build", "a.log", "sub/a.log",
      "b/c/d.txt", "x.txt" }

RECURSIVE JoinLines(_, _)
JoinLines(lines, k) ==
    IF k > Len(lines) THEN ""
    ELSE lines[k] \o "\n" \o JoinLines(lines, k + 1)

IgnoreFileTexts == { JoinLines(ls, 1) : ls \in SeqsUpTo(IgnoreLinePool, MaxIgnoreLines) }

InitIgnore ==
    /\ EngineIdle
    /\ MapIdle
    /\ SlnIdle
    /\ giContent \in IgnoreFileTexts
    /\ giPath \in IgnorePathPool
    /\ giRules = << >>
    /\ giVerdict = FALSE
    /\ giStage = "file"

IgnoreFromRoot ==
    /\ giStage = "file"
    /\ giRules' = ParseGitIgnore(giContent)
    /\ giStage' = "parsed"
    /\ UNCHANGED <<giContent, giPath, giVerdict>>
    /\ UNCHANGED <<pmVars, slVars, enVars>>

IgnoreQuery ==
    /\ giStage = "parsed"
    /\ giVerdict' = IsIgnored(giRules, giPath)
    /\ giStage' = "done"
    /\ UNCHANGED <<giContent, giPath, giRules>>
    /\ UNCHANGED <<pmVars, slVars, enVars>>

NextIgnore == IgnoreFromRoot \/ IgnoreQuery

SpecIgnore == InitIgnore /\ [][NextIgnore]_vars

(***************************************************************************)
(* C6: the ignore verdict is the verdict of the last matching rule.          *)
(***************************************************************************)

\* The positions of the rules that match the path.
MatchingRules(rules, path) ==
    { k \in 1..Len(rules) : GitIgnoreRuleMatches(rules[k], path) }

LastOf(S) == CHOOSE k \in S : \A m \in S : m <= k

\* C6: is_ignored is false when no rule matches and otherwise the negation of
\* the negated flag of the last rule, in file order, that matches; with the
\* rules "build/" and "!build/keep.txt", build/keep.txt is not ignored and
\* build/other.txt is.
C6_LastMatchWins ==
    giStage = "done" =>
        /\ giVerdict = IF MatchingRules(giRules, giPath) = {} THEN FALSE
                       ELSE ~giRules[LastOf(MatchingRules(giRules, giPath))].negated
        /\ giContent = "build/\n!build/keep.txt\n" =>
               /\ giPath = "build/keep.txt" => ~giVerdict
               /\ giPath = "build/other.txt" => giVerdict

\* A file under an ignored directory is re-included by a later negated rule.
C6_Witness ==
    /\ giStage = "done"
    /\ giContent = "build/\n!build/keep.txt\n"
    /\ giPath = "build/keep.txt"
    /\ MatchingRules(giRules, giPath) = {1, 2}
    /\ giVerdict = FALSE

(***************************************************************************)
(* SpecSln: rewrite_sln_project_paths on one solution file.                  *)
(***************************************************************************)

MaxSlnLines == 2

\* Lines of a solution file: a reference to Old\App.csproj, a reference that
\* climbs out of the solution's directory, a solution-folder entry, a line
\* that is no project line, and a reference to a project that is in no map.
SlnLinePool ==
    { "Project(\"{G}\") = \"App\", \"Old\\App.csproj\", \"{1}\"",
      "Project(\"{G}\") = \"Lib\", \"..\\Lib\\Lib.csproj\", \"{2}\"",
      "Project(\"{F}\") = \"Docs\", \"Docs\", \"{3}\"",
      "EndProject",
      "Project(\"{G}\") = \"Gone\", \"Missing\\Gone.vbproj\", \"{4}\"" }

\* Every line ends with "\n"; the resolvable reference, the orphan reference
\* and the solution-folder entry also come with the terminator "\r\n".
SlnCrLfLines ==
    { l \in SlnLinePool : Contains(l, "Old\\") \/ Contains(l, "Gone") \/ Contains(l, "Docs") }

SlnTerminatedLines ==
    { l \o "\n" : l \in SlnLinePool } \cup { l \o "\r\n" : l \in SlnCrLfLines }

\* The last line of a file may come without a terminator or, the resolvable
\* reference, with the terminator "\r".
SlnLastLines ==
    { l \in SlnLinePool : Contains(l, "Old\\") \/ Contains(l, "Gone") \/ l = "EndProject" }
        \cup { l \o "\r" : l \in { x \in SlnLinePool : Contains(x, "Old\\") } }

SlnContents ==
    { StrJoin(ls, "") : ls \in SeqsUpTo(SlnTerminatedLines, MaxSlnLines) }
        \cup { StrJoin(ls, "") \o last :
                  ls \in SeqsUpTo(SlnTerminatedLines, MaxSlnLines - 1), last \in SlnLastLines }

\* Maps from resolved source paths to resolved destination paths.
SlnMapPool ==
    { << >>,
      ("/S/Old/App.csproj" :> "/D/New/App.csproj"),
      ("/S/Old/App.csproj" :> "/D/New/App.csproj"
          @@ "/S/Lib/Lib.csproj" :> "/D/Lib2/Lib.csproj"
          @@ "/S/sub/Old/App.csproj" :> "/D/sub/New/App.csproj") }

\* Where the solution file is and where it goes.
SlnPlaces ==
    { [src |-> "/S/App.sln", dst |-> "/D/App.sln"],
      [src |-> "/S/sub/App.sln", dst |-> "/D/deep/er/App.sln"] }

InitSln ==
    /\ EngineIdle
    /\ MapIdle
    /\ IgnoreIdle
    /\ slContent \in SlnContents
    /\ \E place \in SlnPlaces : slSrcSln = place.src /\ slDstSln = place.dst
    /\ slAbsMap \in SlnMapPool
    /\ slPolicy \in {"warn", "strict"}
    /\ slText = ""
    /\ slWarnings = << >>
    /\ slStage = "input"

\* rewrite_sln_project_paths returns.
SlnRewriteReturns ==
    /\ slStage = "input"
    /\ LET r == RewriteSlnProjectPaths(slContent, slSrcSln, slDstSln, slAbsMap, slPolicy)
       IN  /\ ~r.raised
           /\ slText' = r.text
           /\ slWarnings' = r.warnings
    /\ slStage' = "returned"
    /\ UNCHANGED <<slContent, slSrcSln, slDstSln, slAbsMap, slPolicy>>
    /\ UNCHANGED <<pmVars, giVars, enVars>>

\* rewrite_sln_project_paths raises ValueError.
SlnRewriteRaises ==
    /\ slStage = "input"
    /\ LET r == RewriteSlnProjectPaths(slContent, slSrcSln, slDstSln, slAbsMap, slPolicy)
       IN  /\ r.raised
           /\ slWarnings' = r.warnings
    /\ slStage' = "raised"
    /\ UNCHANGED <<slContent, slSrcSln, slDstSln, slAbsMap, slPolicy, slText>>
    /\ UNCHANGED <<pmVars, giVars, enVars>>

NextSln == SlnRewriteReturns \/ SlnRewriteRaises

SpecSln == InitSln /\ [][NextSln]_vars

(***************************************************************************)
(* C8 and C10: orphan policy and recomputation of the reference.             *)
(***************************************************************************)

\* The quoted path of a line, when the line is a project line whose path has
\* a known project extension; "" otherwise.
SlnReference(line) ==
    LET m == MatchProjectLine(RStrip(line, {"\r", "\n"}))
    IN  IF m.ok /\ LooksLikeProjectFilePath(m.raw_path) THEN m.raw_path ELSE ""

SlnInLines == SplitLinesKeep(slContent)
SlnOutLines == SplitLinesKeep(slText)

\* The lines whose reference resolves to a path that is absent from abs_map,
\* and those whose reference resolves to a key of it.
SlnOrphanLines ==
    { k \in 1..Len(SlnInLines) :
        /\ SlnReference(SlnInLines[k]) # ""
        /\ SlnProjectAbs(SlnReference(SlnInLines[k]), slSrcSln) \notin DOMAIN slAbsMap }

SlnMappedLines ==
    { k \in 1..Len(SlnInLines) :
        /\ SlnReference(SlnInLines[k]) # ""
        /\ SlnProjectAbs(SlnReference(SlnInLines[k]), slSrcSln) \in DOMAIN slAbsMap }

\* C8: under policy "warn" every orphan line gets exactly one warning (the
\* warnings are as many as the orphan lines, the n-th naming the n-th orphan
\* path) and is output unchanged; under policy "strict" an orphan line makes
\* the rewriter raise; without orphan lines the warning list is empty.
C8_OrphanPolicy ==
    /\ slStage = "raised" <=> (slStage \in {"returned", "raised"}
                                 /\ slPolicy = "strict" /\ SlnOrphanLines # {})
    /\ slStage = "returned" =>
           /\ Len(slWarnings) = Cardinality(SlnOrphanLines)
           /\ \A k \in SlnOrphanLines :
                  /\ SlnOutLines[k] = SlnInLines[k]
                  /\ Contains(slWarnings[Cardinality({j \in SlnOrphanLines : j <= k})],
                              ": " \o SlnReference(SlnInLines[k]) \o " (not found")
           /\ SlnOrphanLines = {} => slWarnings = << >>

\* Policy "warn": one orphan line and one resolvable line, one warning.
C8_Witness ==
    /\ slStage = "returned"
    /\ slPolicy = "warn"
    /\ Cardinality(SlnOrphanLines) = 1
    /\ Cardinality(SlnMappedLines) = 1
    /\ Len(slWarnings) = 1

MaxRuns == 2

SrcRoot == "/S"
DstRoot == "/D"

\* Source trees.  TreeCode: a .gitignore with a re-included file, version
\* control metadata, a Python package, a binary file, a text file that no
\* encoding decodes, a text file with "\r\n" line ends.
TreeCode ==
    "/S/.gitignore" :> TextFile("*.log\n!keep.log\n")
    @@ "/S/app.log" :> TextFile("log\n")
    @@ "/S/keep.log" :> TextFile("kept\n")
    @@ "/S/.git/config" :> TextFile("[core]\n")
    @@ "/S/Lib/__init__.py" :> TextFile("")
    @@ "/S/Lib/code.py" :> TextFile("import lib_pkg\n")
    @@ "/S/Lib/data.bin" :> [data |-> "", nul |-> TRUE, decodes |-> FALSE]
    @@ "/S/Lib/bad.txt" :> [data |-> "", nul |-> FALSE, decodes |-> FALSE]
    @@ "/S/docs/win.txt" :> TextFile("Lib\r\nend\r\n")

\* Two files that the mapping Lib -> New sends to the same destination.
TreeCollide ==
    "/S/Lib/a.txt" :> TextFile("one Lib\n")
    @@ "/S/New/a.txt" :> TextFile("two\n")

\* A solution with two projects, one of which refers to the other.
TreeSln ==
    "/S/App.sln" :>
        TextFile("Project(\"{G}\") = \"Lib\", \"Lib\\Lib.csproj\", \"{1}\"\n"
                     \o "Project(\"{G}\") = \"App\", \"App\\App.csproj\", \"{2}\"\n")
    @@ "/S/Lib/Lib.csproj" :> TextFile("<Project />\n")
    @@ "/S/App/App.csproj" :>
        TextFile("<ProjectReference Include=\"..\\Lib\\Lib.csproj\" />\n")

\* A solution with a reference to a project that is not in the tree.
TreeOrphan ==
    "/S/App.sln" :>
        TextFile("Project(\"{G}\") = \"Lib\", \"Lib\\Lib.csproj\", \"{1}\"\n"
                     \o "Project(\"{G}\") = \"Gone\", \"Gone\\Gone.csproj\", \"{2}\"\n")
    @@ "/S/Lib/Lib.csproj" :> TextFile("<Project />\n")

\* Build output directories beside a kept file, and the metadata directory
\* of a nested repository.
TreeBuild ==
    "/S/ok/a.cs" :> TextFile("class A {}\n")
    @@ "/S/proj/bin/Debug/b.cs" :> TextFile("class B {}\n")
    @@ "/S/proj/obj/Debug/c.cs" :> TextFile("class C {}\n")
    @@ "/S/sub/.git/config" :> TextFile("[core]\n")
    @@ "/S/sub/.git/hooks/h.txt" :> TextFile("h\n")

SrcTrees == {TreeCode, TreeCollide, TreeSln, TreeOrphan}

\* Destination trees: empty, or with an edited file and a file in a
\* directory that has no counterpart in the source tree.
DstStale ==
    "/D/New/code.py" :> TextFile("import new_pkg\nedited\n")
    @@ "/D/New/extra/x.txt" :> TextFile("x\n")

DstTrees == {<< >>, DstStale}

\* A destination where a file stands at the path of a directory.
DstBlocked == "/D/New" :> TextFile("file\n")

\* Each source tree beside each destination tree.
Worlds == { src @@ dst : src \in SrcTrees, dst \in DstTrees }

\* The directories of a tree with the given files, the two roots included.
DirsOf(files) == {SrcRoot, DstRoot} \cup UNION { Ancestors(p) : p \in DOMAIN files }

\* Configurations.  ignore_extensions is read by build_sync_plan
\* (sync.py:71) but is no field of AppConfig in config.py.
CfgPlain ==
    [path_mappings |-> << [from |-> "Lib", to |-> "New"] >>,
     content_rules |->
         << [path_glob |-> "**/*.py", extensions |-> << ".py" >>,
             replacements |-> << [from |-> "lib_pkg", to |-> "new_pkg"] >>] >>,
     include_globs |-> << >>,
     exclude_globs |-> << >>,
     ignore_extensions |-> << >>,
     sln |-> [orphan_policy |-> "warn"],
     verify |-> [enabled |-> FALSE, dotnet_build |-> TRUE, python_compileall |-> TRUE]]

\* No mapping and no rule.
CfgCopy == [CfgPlain EXCEPT !.path_mappings = << >>, !.content_rules = << >>]

\* A mapping whose to-value contains its from-value.
CfgGrow ==
    [CfgPlain EXCEPT !.path_mappings = << [from |-> "Lib", to |-> "LibX"] >>,
                     !.content_rules = << >>]

\* A rule whose glob names the source directory.
CfgSourceGlob ==
    [CfgPlain EXCEPT !.content_rules =
        << [path_glob |-> "Lib/**", extensions |-> << >>,
            replacements |-> << [from |-> "lib_pkg", to |-> "new_pkg"],
                                [from |-> "one", to |-> "uno"] >>] >>]

\* A replacement that the swapped list does not undo.
CfgLossy ==
    [CfgPlain EXCEPT !.content_rules =
        << [path_glob |-> "**/*", extensions |-> << >>,
            replacements |-> << [from |-> "end", to |-> "Lib"],
                                [from |-> "two", to |-> "one"] >>] >>]

\* Include and exclude globs and an ignored extension.
CfgFilters ==
    [CfgPlain EXCEPT !.include_globs = << "**/*.py", "*.log", "**/*.txt", "*.sln" >>,
                     !.exclude_globs = << "docs/**" >>,
                     !.ignore_extensions = << ".log" >>]

CfgStrict == [CfgPlain EXCEPT !.sln = [orphan_policy |-> "strict"]]

CfgVerify == [CfgPlain EXCEPT !.verify.enabled = TRUE]

\* A mapping whose to-value leads out of the root it is joined to.
CfgEscape ==
    [CfgPlain EXCEPT !.path_mappings = << [from |-> "Lib", to |-> "../Out"] >>,
                     !.content_rules = << >>]

\* The exclude globs of build output directories.
CfgExcludes == [CfgCopy EXCEPT !.exclude_globs = << "**/bin/**", "**/obj/**" >>]

Configs ==
    {CfgPlain, CfgCopy, CfgGrow, CfgSourceGlob, CfgLossy, CfgFilters, CfgStrict, CfgVerify}

\* A content rule for project files that renames what the mapping moves.
CfgRename ==
    [CfgPlain EXCEPT !.content_rules =
        << [path_glob |-> "**/*.csproj", extensions |-> << ".csproj" >>,
            replacements |-> << [from |-> "Lib", to |-> "Core"] >>] >>]

\* Two rules that apply to the same file and repeat each other's
\* replacements and the pair of the mapping.
CfgMerge ==
    [CfgPlain EXCEPT !.content_rules =
        << [path_glob |-> "**/*.py", extensions |-> << ".py" >>,
            replacements |-> << [from |-> "lib_pkg", to |-> "new_pkg"],
                                [from |-> "Lib", to |-> "New"] >>],
           [path_glob |-> "Lib/**", extensions |-> << >>,
            replacements |-> << [from |-> "Lib", to |-> "New"],
                                [from |-> "lib_pkg", to |-> "new_pkg"],
                                [from |-> "one", to |-> "uno"] >>] >>]

\* A destination that holds, at the path both files of TreeCollide are sent
\* to, the text of the second of them.
DstSecond == "/D/New/a.txt" :> TextFile("two\n")

\* The file systems and configurations that run_sync starts from: every
\* world under every configuration above, the escaping mapping over a
\* package and over a solution, the build tree with and without its exclude
\* globs, the blocked destination with and without a mapping, the solution
\* under the renaming rule, and the package under the repeating rules.
Setups ==
    (Worlds \X Configs)
        \cup {<<TreeCode, CfgEscape>>, <<TreeOrphan, CfgEscape>>,
              <<TreeBuild, CfgExcludes>>, <<TreeBuild, CfgCopy>>,
              <<TreeCollide @@ DstBlocked, CfgPlain>>, <<TreeCollide @@ DstBlocked, CfgCopy>>,
              <<TreeSln, CfgRename>>, <<TreeCode, CfgMerge>>,
                     <<TreeCollide @@ DstSecond, CfgPlain>>}

Init ==
    /\ MapIdle
    /\ IgnoreIdle
    /\ SlnIdle
    /\ \E setup \in Setups :
           /\ fsFiles = setup[1]
           /\ fsDirs = DirsOf(setup[1])
           /\ rsConfig = setup[2]
    /\ rsPc = "idle"
    /\ rsDryRun = FALSE
    /\ rsSyncback = FALSE
    /\ rsPlan = << >>
    /\ rsAbsMap = << >>
    /\ rsIndex = 0
    /\ rsReport = << >>
    /\ rsWritten = << >>
    /\ rsHistory = << >>
    /\ fsStart = [files |-> fsFiles, dirs |-> fsDirs]
    /\ fsInitial = [files |-> fsFiles, dirs |-> fsDirs]

\* SyncReport(scanned, skipped_binary, ignored_by_git) of run_sync.
\* Mutant: the binary files of the plan are not counted.
NewReportWithoutBinary(p) ==
    [scanned |-> Len(p.actions),
     created_or_updated |-> 0,
     unchanged |-> 0,
     skipped_binary |-> 0,
     ignored_by_git |-> Len(p.ignored_by_git),
     replacement_hits |-> 0,
     warnings |-> << >>,
     file_results |-> << >>,
     verify_results |-> << >>]

NewReport(p) ==
    [scanned |-> Len(p.actions),
     created_or_updated |-> 0,
     unchanged |-> 0,
     skipped_binary |-> Len(p.skipped_binary),
     ignored_by_git |-> Len(p.ignored_by_git),
     replacement_hits |-> 0,
     warnings |-> << >>,
     file_results |-> << >>,
     verify_results |-> << >>]

\* run_sync is called (lines 33 to 54): the plan, the report, abs_map.
RunSync(dry, back) ==
    /\ rsPc \in {"idle", "returned", "raised", "failed"}
    /\ Len(rsHistory) < MaxRuns
    /\ rsDryRun' = dry
    /\ rsSyncback' = back
    /\ rsPlan' = IF back THEN BuildSyncPlan(fsFiles, DstRoot, SrcRoot, rsConfig, TRUE)
               ELSE BuildSyncPlan(fsFiles, SrcRoot, DstRoot, rsConfig, FALSE)
    /\ rsReport' = NewReport(rsPlan')
    /\ rsAbsMap' = AbsMapOf(rsPlan'.actions)
    /\ rsIndex' = 1
    /\ rsWritten' = << >>
    /\ fsStart' = [files |-> fsFiles, dirs |-> fsDirs]
    /\ rsPc' = "loop"
    /\ UNCHANGED <<fsFiles, fsDirs, rsConfig, rsHistory, fsInitial>>
    /\ UNCHANGED <<pmVars, giVars, slVars>>

\* The loop of run_sync is at an action.
InLoop == rsPc = "loop" /\ rsIndex <= Len(rsPlan.actions)

CurrentAction == rsPlan.actions[rsIndex]

SourceRead == SafeReadText(fsFiles[PathResolve(CurrentAction.source_abs)])

TargetPath == PathResolve(CurrentAction.target_abs)

\* action.target_abs.exists(): a file or a directory at the end of a chain
\* of directories.
TargetExists ==
    /\ TargetPath \in DOMAIN fsFiles \/ TargetPath \in fsDirs
    /\ PassedDirs(CurrentAction.target_abs) \subseteq fsDirs

\* _safe_read_text(action.target_abs)[0]: reading a directory is an OSError
\* for every encoding.
TargetRead ==
    IF TargetPath \in DOMAIN fsFiles THEN SafeReadText(fsFiles[TargetPath])
    ELSE [none |-> TRUE, text |-> "", nul |-> FALSE]

\* The output of lines 82 to 106 for the current action.
CurrentOutput ==
    ActionOutput(CurrentAction, SourceRead.text, rsAbsMap, rsConfig.sln.orphan_policy)

\* Mutant: the comparison is skipped, every text file counts as changed.
TextChangedAlways(target_exists, target_read, text, nul) == TRUE

\* changed = (target_text != text), where target_text is None without a
\* target and for a target that does not decode.
TextChanged(target_exists, target_read, text, nul) ==
    \/ ~target_exists
    \/ target_read.none
    \/ target_read.text # text
    \/ target_read.nul # nul

Changed(out) ==
    TextChanged(TargetExists, TargetRead, out.text, SourceRead.nul)

\* mkdir or write_text of lines 120 and 121 raises an OSError: a file stands
\* where a directory of the target path is needed, or a directory stands at
\* the target path.
WriteBlocked ==
    \/ PassedDirs(CurrentAction.target_abs) \cap DOMAIN fsFiles # {}
    \/ TargetPath \in fsDirs

\* Mutant: syncback writes whether or not the directory exists.
MissingSourceDirectoryNever == FALSE

\* The syncback guard of line 115.
MissingSourceDirectory ==
    /\ rsSyncback
    /\ ~TargetExists
    /\ ~(PassedDirs(CurrentAction.target_abs) \subseteq fsDirs)

FileResult(changed, hits, binary) ==
    [source_rel |-> PathResolve(CurrentAction.source_abs),
     target_rel |-> PathResolve(CurrentAction.target_abs),
     changed |-> changed,
     replacement_hits |-> hits,
     skipped_binary |-> binary]

Frame == UNCHANGED <<rsConfig, rsDryRun, rsSyncback, rsPlan, rsAbsMap, fsStart, fsInitial>>

OtherComponents == UNCHANGED <<pmVars, giVars, slVars>>

\* Lines 64 to 74: a binary action gets a file result and nothing else.
SkipBinary ==
    /\ InLoop
    /\ CurrentAction.is_binary
    /\ rsReport' = [rsReport EXCEPT !.file_results = Append(@, FileResult(FALSE, 0, TRUE))]
    /\ rsIndex' = rsIndex + 1
    /\ UNCHANGED <<fsFiles, fsDirs, rsPc, rsWritten, rsHistory>>
    /\ Frame
    /\ OtherComponents

\* Lines 76 to 80: a source that no encoding decodes.
SkipUnreadable ==
    /\ InLoop
    /\ ~CurrentAction.is_binary
    /\ SourceRead.none
    /\ rsReport' = [rsReport EXCEPT
           !.warnings = Append(@, "skip unreadable text file: "
                                      \o PathResolve(CurrentAction.source_abs)),
           !.unchanged = @ + 1]
    /\ rsIndex' = rsIndex + 1
    /\ UNCHANGED <<fsFiles, fsDirs, rsPc, rsWritten, rsHistory>>
    /\ Frame
    /\ OtherComponents

\* The current action is a text action whose source was read.
AtText == InLoop /\ ~CurrentAction.is_binary /\ ~SourceRead.none

\* The run as it enters the history when run_sync ends; verified tells
\* whether run_verification was called.
RunRecord(outcome, rep, verified) ==
    [dry_run |-> rsDryRun, syncback |-> rsSyncback, outcome |-> outcome, report |-> rep,
     before |-> fsStart, written |-> rsWritten, verified |-> verified]

\* Line 86 raises: rewrite_sln_project_paths met an orphan under "strict",
\* and run_sync ends with the ValueError.
RaiseOrphanWith(out) ==
    /\ out.raised
    /\ rsPc' = "raised"
    /\ rsHistory' = Append(rsHistory, RunRecord("raised", rsReport, FALSE))
    /\ UNCHANGED <<fsFiles, fsDirs, rsReport, rsIndex, rsWritten>>

RaiseOrphan == AtText /\ RaiseOrphanWith(CurrentOutput) /\ Frame /\ OtherComponents

\* Lines 122 to 133: the target holds the text already.
KeepUnchangedWith(out) ==
    /\ ~out.raised
    /\ ~Changed(out)
    /\ rsReport' = [rsReport EXCEPT
           !.warnings = @ \o out.warnings,
           !.unchanged = @ + 1,
           !.replacement_hits = @ + out.hits,
           !.file_results = Append(@, FileResult(FALSE, out.hits, FALSE))]
    /\ rsIndex' = rsIndex + 1
    /\ UNCHANGED <<fsFiles, fsDirs, rsPc, rsWritten, rsHistory>>

KeepUnchanged == AtText /\ KeepUnchangedWith(CurrentOutput) /\ Frame /\ OtherComponents

\* Mutant: a dry run writes like a run with dry_run = false.
MayWriteAlways(dry_run) == TRUE

\* The guard of line 114, "if not dry_run".
MayWrite(dry_run) == ~dry_run

\* Lines 112 to 114 under dry_run: the change is counted, nothing is written.
CountChangeWith(out) ==
    /\ ~out.raised
    /\ Changed(out)
    /\ ~MayWrite(rsDryRun)
    /\ rsReport' = [rsReport EXCEPT
           !.warnings = @ \o out.warnings,
           !.created_or_updated = @ + 1,
           !.replacement_hits = @ + out.hits,
           !.file_results = Append(@, FileResult(TRUE, out.hits, FALSE))]
    /\ rsIndex' = rsIndex + 1
    /\ UNCHANGED <<fsFiles, fsDirs, rsPc, rsWritten, rsHistory>>

CountChange == AtText /\ CountChangeWith(CurrentOutput) /\ Frame /\ OtherComponents

\* Lines 115 to 119: syncback does not create a file in a directory that
\* does not exist; the loop goes on without a file result.
SkipCreateWith(out) ==
    /\ ~out.raised
    /\ Changed(out)
    /\ MayWrite(rsDryRun)
    /\ MissingSourceDirectory
    /\ rsReport' = [rsReport EXCEPT
           !.warnings = (@ \o out.warnings)
                            \o << "skip create (missing source directory): " \o TargetPath >>,
           !.created_or_updated = @ + 1]
    /\ rsIndex' = rsIndex + 1
    /\ UNCHANGED <<fsFiles, fsDirs, rsPc, rsWritten, rsHistory>>

SkipCreate == AtText /\ SkipCreateWith(CurrentOutput) /\ Frame /\ OtherComponents

\* Lines 120 and 121: the parents are made and the text is written.
WriteTargetWith(out) ==
    /\ ~out.raised
    /\ Changed(out)
    /\ MayWrite(rsDryRun)
    /\ ~MissingSourceDirectory
    /\ ~WriteBlocked
    /\ fsDirs' = fsDirs \cup PassedDirs(CurrentAction.target_abs)
    /\ fsFiles' = (TargetPath :> [data |-> out.text, nul |-> SourceRead.nul, decodes |-> TRUE])
                      @@ fsFiles
    /\ rsWritten' = Append(rsWritten, TargetPath)
    /\ rsReport' = [rsReport EXCEPT
           !.warnings = @ \o out.warnings,
           !.created_or_updated = @ + 1,
           !.replacement_hits = @ + out.hits,
           !.file_results = Append(@, FileResult(TRUE, out.hits, FALSE))]
    /\ rsIndex' = rsIndex + 1
    /\ UNCHANGED <<rsPc, rsHistory>>

WriteTarget == AtText /\ WriteTargetWith(CurrentOutput) /\ Frame /\ OtherComponents

\* Lines 120 and 121 raise: nothing catches the OSError, run_sync ends with
\* it after the change was counted.
FailWriteWith(out) ==
    /\ ~out.raised
    /\ Changed(out)
    /\ MayWrite(rsDryRun)
    /\ ~MissingSourceDirectory
    /\ WriteBlocked
    /\ rsReport' = [rsReport EXCEPT
           !.warnings = @ \o out.warnings,
           !.created_or_updated = @ + 1]
    /\ rsPc' = "failed"
    /\ rsHistory' = Append(rsHistory, RunRecord("failed", rsReport', FALSE))
    /\ UNCHANGED <<fsFiles, fsDirs, rsIndex, rsWritten>>

FailWrite == AtText /\ FailWriteWith(CurrentOutput) /\ Frame /\ OtherComponents

\* _find_python_root(path, dst_root), from the directory current on.
RECURSIVE FindPythonRootFrom(_, _, _)
FindPythonRootFrom(files, current, dst_root) ==
    IF current # dst_root /\ PathParent(current) # current
       /\ PathResolve(current \o "/__init__.py") \in DOMAIN files
    THEN FindPythonRootFrom(files, PathParent(current), dst_root)
    ELSE current

FindPythonRoot(files, path, dst_root) ==
    FindPythonRootFrom(files, PathParent(path), dst_root)

\* The names of the commands of run_verification(dst_root, plan, config): one
\* dotnet build for every .sln target, one compileall for every Python root.
SlnTargets(actions) ==
    SelectSeq([k \in 1..Len(actions) |-> actions[k].target_abs],
              LAMBDA t : LowerSuffix(t) = ".sln")

PyRoots(actions, files, dst_root) ==
    SortPaths({ FindPythonRoot(files, actions[k].target_abs, dst_root) :
                  k \in { m \in 1..Len(actions) : LowerSuffix(actions[m].target_abs) = ".py" } })

DotnetNames(slns) == [k \in 1..Len(slns) |-> "dotnet build " \o PathName(slns[k])]

CompileallNames(roots, dst_root) ==
    [k \in 1..Len(roots) |->
        "python compileall "
            \o (IF roots[k] = dst_root THEN "." ELSE RelativeTo(roots[k], dst_root))]

VerificationNames(actions, files, dst_root, verify) ==
    (IF verify.dotnet_build THEN DotnetNames(SlnTargets(actions)) ELSE << >>)
        \o (IF verify.python_compileall
            THEN CompileallNames(PyRoots(actions, files, dst_root), dst_root)
            ELSE << >>)

OutputRoot == IF rsSyncback THEN SrcRoot ELSE DstRoot

\* Mutant: verification runs in a dry run too.
VerificationDueInDryRun(verify, dry_run) == verify.enabled

\* The condition of line 135.
VerificationDue(verify, dry_run) == verify.enabled /\ ~dry_run

\* Line 144 without verification: a dry run, or verification is disabled.
ReturnReport ==
    /\ rsPc = "loop"
    /\ rsIndex > Len(rsPlan.actions)
    /\ ~VerificationDue(rsConfig.verify, rsDryRun)
    /\ rsPc' = "returned"
    /\ rsHistory' = Append(rsHistory, RunRecord("returned", rsReport, FALSE))
    /\ UNCHANGED <<fsFiles, fsDirs, rsReport, rsIndex, rsWritten>>
    /\ Frame
    /\ OtherComponents

\* Lines 135 to 144: run_verification runs its commands; whether a command
\* succeeds is up to the external tool.
ReturnVerifiedWith(names) ==
    \E oks \in [1..Len(names) -> BOOLEAN] :
        /\ rsReport' = [rsReport EXCEPT
               !.verify_results =
                   @ \o [k \in 1..Len(names) |-> [name |-> names[k], ok |-> oks[k]]]]
        /\ rsHistory' = Append(rsHistory, RunRecord("returned", rsReport', TRUE))

ReturnVerified ==
    /\ rsPc = "loop"
    /\ rsIndex > Len(rsPlan.actions)
    /\ VerificationDue(rsConfig.verify, rsDryRun)
    /\ ReturnVerifiedWith(VerificationNames(rsPlan.actions, fsFiles, OutputRoot, rsConfig.verify))
    /\ rsPc' = "returned"
    /\ UNCHANGED <<fsFiles, fsDirs, rsIndex, rsWritten>>
    /\ Frame
    /\ OtherComponents

Next ==
    \/ \E dry \in BOOLEAN, back \in BOOLEAN : RunSync(dry, back)
    \/ SkipBinary
    \/ SkipUnreadable
    \/ RaiseOrphan
    \/ KeepUnchanged
    \/ CountChange
    \/ SkipCreate
    \/ WriteTarget
    \/ FailWrite
    \/ ReturnReport
    \/ ReturnVerified

Spec == Init /\ [][Next]_vars

(***************************************************************************)
(* Properties of run_sync.                                                   *)
(***************************************************************************)

\* The run that ended last and the run before it.
LastRun == rsHistory[Len(rsHistory)]
PrevRun == rsHistory[Len(rsHistory) - 1]

\* A run that wrote (dry_run = false) and returned its report.
ForwardApply(run) == ~run.dry_run /\ ~run.syncback /\ run.outcome = "returned"
SyncbackApply(run) == ~run.dry_run /\ run.syncback /\ run.outcome = "returned"

\* run_sync has just returned from the second of two forward runs that wrote.
TwiceForward ==
    /\ rsPc = "returned"
    /\ Len(rsHistory) >= 2
    /\ ForwardApply(PrevRun)
    /\ ForwardApply(LastRun)

\* No two actions of the plan have the same destination path.
DistinctTargets(actions) ==
    \A i, j \in 1..Len(actions) :
        i # j => PathResolve(actions[i].target_abs) # PathResolve(actions[j].target_abs)

\* The run that has just returned reports no change and wrote nothing.
RunIsQuiet ==
    /\ rsReport.created_or_updated = 0
    /\ \A k \in 1..Len(rsReport.file_results) : ~rsReport.file_results[k].changed
    /\ rsWritten = << >>
    /\ fsFiles = fsStart.files
    /\ fsDirs = fsStart.dirs

ForwardReturned == rsPc = "returned" /\ ~rsDryRun /\ ~rsSyncback

\* The action is a text action whose source one of the encodings decodes.
ReadableTextAction(a) ==
    /\ ~a.is_binary
    /\ ~SafeReadText(fsStart.files[PathResolve(a.source_abs)]).none

\* No other action of the plan has the destination path of action k.
UnsharedTarget(actions, k) ==
    \A m \in 1..Len(actions) :
        m # k => PathResolve(actions[m].target_abs) # PathResolve(actions[k].target_abs)

\* dst_root / apply_path_mappings(source_rel)
MappedTarget(a) ==
    PathResolve(PathJoin(DstRoot, ApplyPathMappings(a.source_rel, rsConfig.path_mappings, FALSE)))

\* The file at the mapped destination of the action holds source_content
\* after the structural rewriting and the replacements of the action.
TargetHolds(a, source_content) ==
    /\ MappedTarget(a) \in DOMAIN fsFiles
    /\ fsFiles[MappedTarget(a)].data
           = ActionOutput(a, source_content, rsAbsMap, rsConfig.sln.orphan_policy).text

\* C4 as claimed: after a forward run with dry_run = false, for every
\* readable text action with an unshared destination, the destination file
\* exists and holds the content of the source file, transformed by the
\* structural rewriting and the ordered replacements of the action.
C4_ForwardPostconditionAsClaimed ==
    ForwardReturned =>
        \A k \in 1..Len(rsPlan.actions) :
            (ReadableTextAction(rsPlan.actions[k]) /\ UnsharedTarget(rsPlan.actions, k)) =>
                TargetHolds(rsPlan.actions[k],
                            fsStart.files[PathResolve(rsPlan.actions[k].source_abs)].data)

\* What holds instead of C4: the destination file holds the transformation
\* of the source text as _safe_read_text returns it, with every "\r\n" and
\* "\r" of the source file turned into "\n".
C4_ForwardPostconditionOfReadText ==
    ForwardReturned =>
        \A k \in 1..Len(rsPlan.actions) :
            (ReadableTextAction(rsPlan.actions[k]) /\ UnsharedTarget(rsPlan.actions, k)) =>
                TargetHolds(rsPlan.actions[k],
                            SafeReadText(fsStart.files[PathResolve(rsPlan.actions[k].source_abs)]).text)

\* A source file with "\r\n" line ends and no replacement that applies to
\* it: the destination file holds "\n" line ends.
C4_Witness ==
    /\ ForwardReturned
    /\ rsConfig.path_mappings = << >>
    /\ rsConfig.content_rules = << >>
    /\ "/S/docs/win.txt" \in DOMAIN fsStart.files
    /\ Contains(fsStart.files["/S/docs/win.txt"].data, "\r\n")
    /\ "/D/docs/win.txt" \in DOMAIN fsFiles
    /\ fsFiles["/D/docs/win.txt"].data = ReadText(fsStart.files["/S/docs/win.txt"].data)
    /\ ~Contains(fsFiles["/D/docs/win.txt"].data, "\r")

(***************************************************************************)
(* C5: a dry run.                                                            *)
(***************************************************************************)

\* The sum of the replacement hits of the file results from k on.
RECURSIVE SumHitsFrom(_, _)
SumHitsFrom(results, k) ==
    IF k > Len(results) THEN 0
    ELSE results[k].replacement_hits + SumHitsFrom(results, k + 1)

\* The text actions of the plan, and those whose source was read.
TextActions(actions) == { k \in 1..Len(actions) : ~actions[k].is_binary }

ReadActions(actions) == { k \in TextActions(actions) : ReadableTextAction(actions[k]) }

\* The counters of the report of a run that returned after a dry run.
DryRunCounts(actions, rep) ==
    /\ rep.scanned = Len(actions)
    /\ rep.created_or_updated + rep.unchanged = Cardinality(TextActions(actions))
    /\ rep.created_or_updated
           = Cardinality({ k \in 1..Len(rep.file_results) : rep.file_results[k].changed })
    /\ Len(rep.file_results) = Len(actions) - Cardinality(TextActions(actions) \ ReadActions(actions))
    /\ rep.replacement_hits = SumHitsFrom(rep.file_results, 1)

\* C5: during and after a run with dry_run = true, forward or syncback, the
\* files and the directories of both trees are those the run started with;
\* the report it returns counts the scanned, the changed and the unchanged
\* files and the replacement hits.
C5_DryRunWritesNothing ==
    (rsDryRun /\ rsPc \in {"loop", "returned", "raised"}) =>
        /\ fsFiles = fsStart.files
        /\ fsDirs = fsStart.dirs
        /\ rsWritten = << >>
        /\ rsPc = "returned" => DryRunCounts(rsPlan.actions, rsReport)

\* A dry run that returned with changes and replacement hits counted, for
\* destination files that do not exist.
C5_Witness ==
    /\ rsDryRun
    /\ rsPc = "returned"
    /\ rsReport.created_or_updated >= 2
    /\ rsReport.replacement_hits >= 1
    /\ \E k \in 1..Len(rsReport.file_results) :
           /\ rsReport.file_results[k].changed
           /\ rsReport.file_results[k].target_rel \notin DOMAIN fsFiles

(***************************************************************************)
(* C7: ignored files and the plan.                                           *)
(***************************************************************************)

\* The root of the tree the plan of the current run walked.
WalkRoot == IF rsSyncback THEN DstRoot ELSE SrcRoot

\* The relative paths of the walked files that the ignore matcher of the
\* walked tree reports ignored.
IgnoredWalked(files, root) ==
    { r \in { RelativeTo(p, root) : p \in { q \in DOMAIN files : StartsWith(q, root \o "/") } } :
        IsIgnored(IgnoreRulesOf(files, root), r) }

SeqRange(seq) == { seq[k] : k \in 1..Len(seq) }

\* The plan and the report keep the ignored files apart from the actions.
IgnoredKeptOut(ignored, p, rep) ==
    /\ SeqRange(p.ignored_by_git) = ignored
    /\ Len(p.ignored_by_git) = Cardinality(ignored)
    /\ \A k \in 1..Len(p.actions) : p.actions[k].source_rel \notin ignored
    /\ SeqRange(p.ignored_by_git) \cap DOMAIN p.source_to_target_rel = {}
    /\ rep.ignored_by_git = Cardinality(ignored)

\* C7: every walked file that the ignore matcher reports ignored is in
\* plan.ignored_by_git and in no action, whatever the include globs, the
\* exclude globs and the ignored extensions say; the report's ignored_by_git
\* counter is the number of these files.
C7_IgnoredNeverPlanned ==
    rsPc \in {"loop", "returned", "raised"} =>
        IgnoredKeptOut(IgnoredWalked(fsStart.files, WalkRoot), rsPlan, rsReport)

\* An ignored file that an include glob names, next to a file that a later
\* rule of .gitignore includes again, in a plan with actions.
C7_Witness ==
    /\ rsPc = "returned"
    /\ ~rsSyncback
    /\ rsPlan.ignored_by_git = << "app.log" >>
    /\ rsReport.ignored_by_git = 1
    /\ AnyGlobMatch("app.log", rsConfig.include_globs)
    /\ "keep.log" \in { RelativeTo(p, SrcRoot) : p \in SeqRange(AllFiles(fsStart.files, SrcRoot)) }
    /\ Len(rsPlan.actions) >= 2

(***************************************************************************)
(* C9: the solution rewriter and the replacements that follow it.            *)
(***************************************************************************)

\* The lines of a solution text whose reference resolves to a key of abs_map.
MappedProjectLines(lines, source_sln_abs, abs_map) ==
    { k \in 1..Len(lines) :
        /\ SlnReference(lines[k]) # ""
        /\ SlnProjectAbs(SlnReference(lines[k]), source_sln_abs) \in DOMAIN abs_map }

\* Line k of the output refers, from the directory of the destination
\* solution, to the destination of the project that line k of the source
\* refers to.
RefersToMapped(in_lines, out_lines, k, action, abs_map) ==
    /\ k <= Len(out_lines)
    /\ SlnReference(out_lines[k]) # ""
    /\ PathResolve(PathJoin(PathParent(action.target_abs),
                            StrReplace(SlnReference(out_lines[k]), "\\", "/")))
           = abs_map[SlnProjectAbs(SlnReference(in_lines[k]), action.source_abs)]

\* No warning names the reference of the line.
NoWarningFor(warnings, reference) ==
    \A w \in 1..Len(warnings) : ~Contains(warnings[w], ": " \o reference \o " (not found")

SlnActionCorrect(action, in_lines, out) ==
    \A k \in MappedProjectLines(in_lines, action.source_abs, rsAbsMap) :
        /\ NoWarningFor(out.warnings, SlnReference(in_lines[k]))
        /\ RefersToMapped(in_lines, SplitLinesKeep(out.text), k, action, rsAbsMap)

\* The loop of run_sync is at a solution file.
AtSln == AtText /\ LowerSuffix(CurrentAction.source_abs) = ".sln"

\* C9 as claimed: in the text that run_sync computes for a .sln action,
\* every project reference whose project is in the plan has no orphan
\* warning and leads to the destination of that project, whatever the
\* replacements of the action are.
C9_SlnReferenceAsClaimed ==
    AtSln => SlnActionCorrect(CurrentAction, SplitLinesKeep(SourceRead.text), CurrentOutput)

\* The forward run under the mapping Lib -> LibX is at App.sln: the
\* reference to Lib\Lib.csproj, whose project is in the plan with the
\* destination LibX/LibX.csproj, comes out as LibXX\LibXX.csproj.
C9_Witness ==
    /\ AtSln
    /\ ~rsSyncback
    /\ rsConfig.path_mappings = << [from |-> "Lib", to |-> "LibX"] >>
    /\ "/S/Lib/Lib.csproj" \in DOMAIN rsAbsMap
    /\ rsAbsMap["/S/Lib/Lib.csproj"] = "/D/LibX/LibX.csproj"
    /\ Contains(SourceRead.text, "\"Lib\\Lib.csproj\"")
    /\ Contains(CurrentOutput.text, "\"LibXX\\LibXX.csproj\"")
    /\ CurrentOutput.warnings = << >>

(***************************************************************************)
(* C3: a forward run into an empty destination, then a syncback run.         *)
(***************************************************************************)

\* No file is below the destination root.
EmptyDestination(files) == \A p \in DOMAIN files : ~StartsWith(p, DstRoot \o "/")

\* run_sync has just returned from a syncback run with dry_run = false that
\* followed a forward run with dry_run = false into an empty destination.
ForwardThenSyncback ==
    /\ rsPc = "returned"
    /\ Len(rsHistory) >= 2
    /\ ForwardApply(PrevRun)
    /\ SyncbackApply(LastRun)
    /\ EmptyDestination(PrevRun.before.files)

\* The swapped replacements undo the replacements on the text.
ExactInverses(text, replacements) ==
    ApplyTextReplacements(ApplyTextReplacements(text, replacements).text,
                          SwapAll(replacements)).text = text

\* The text files of the forward plan whose source was read and whose
\* replacements are exact string inverses on the text read.
InverseActions(actions, files) ==
    { k \in 1..Len(actions) :
        /\ ~actions[k].is_binary
        /\ ~SafeReadText(files[PathResolve(actions[k].source_abs)]).none
        /\ ExactInverses(SafeReadText(files[PathResolve(actions[k].source_abs)]).text,
                         actions[k].replacements) }

\* The source file of the action is as it was before the two runs.
SourceRestored(a, before) ==
    /\ PathResolve(a.source_abs) \in DOMAIN fsFiles
    /\ fsFiles[PathResolve(a.source_abs)] = before[PathResolve(a.source_abs)]

\* The destination of action k maps back to its source path, and the
\* destination of no other action does.
MapsBackAlone(actions, k, mappings) ==
    /\ ApplyPathMappings(actions[k].target_rel, mappings, TRUE) = actions[k].source_rel
    /\ \A m \in 1..Len(actions) :
           actions[m].target_rel # actions[k].target_rel =>
               ApplyPathMappings(actions[m].target_rel, mappings, TRUE) # actions[k].source_rel

\* The replacements that the syncback plan selects for the destination path
\* are the swapped replacements of the forward action, in the same order.
SelectsSwapped(a, config) ==
    ActionReplacements(a.target_rel, FALSE, config, TRUE) = SwapAll(a.replacements)

\* The text files without structural rewriting whose destination is theirs
\* alone and for which the syncback plan selects the swapped replacements.
RoundTripActions(actions, files, config) ==
    { k \in InverseActions(actions, files) :
        /\ LowerSuffix(actions[k].source_abs) \notin {".sln", ".csproj"}
        /\ UnsharedTarget(actions, k)
        /\ MapsBackAlone(actions, k, config.path_mappings)
        /\ SelectsSwapped(actions[k], config) }

RoundTripHolds(actions, ks, before) == \A k \in ks : SourceRestored(actions[k], before)

\* C3 as claimed: after a forward run into an empty destination and a
\* syncback run with the same configuration, every text file of the source
\* tree whose replacements are exact string inverses has the content it had
\* before the two runs.
C3_ContentRoundTripAsClaimed ==
    ForwardThenSyncback =>
        RoundTripHolds(BuildSyncPlan(PrevRun.before.files, SrcRoot, DstRoot, rsConfig, FALSE).actions,
                       InverseActions(
                           BuildSyncPlan(PrevRun.before.files, SrcRoot, DstRoot, rsConfig, FALSE).actions,
                           PrevRun.before.files),
                       PrevRun.before.files)

\* What holds instead of C3: the content round trip of a text file that is
\* neither a .sln nor a .csproj file and whose replacements are exact
\* string inverses, when no other file of the forward plan has its
\* destination path, its destination path and no other maps back to its
\* source path, and the syncback plan selects for the destination path the
\* swapped replacements of the forward action.
C3_ContentRoundTripOfPlainText ==
    ForwardThenSyncback =>
        RoundTripHolds(BuildSyncPlan(PrevRun.before.files, SrcRoot, DstRoot, rsConfig, FALSE).actions,
                       RoundTripActions(
                           BuildSyncPlan(PrevRun.before.files, SrcRoot, DstRoot, rsConfig, FALSE).actions,
                           PrevRun.before.files, rsConfig),
                       PrevRun.before.files)

\* The solution file of the source tree after the two runs, under the
\* mapping Lib -> LibX: its reference to Lib\Lib.csproj has become a
\* reference to LibX\LibX.csproj, a path that is not in the source tree.
C3_Witness ==
    /\ ForwardThenSyncback
    /\ rsConfig.path_mappings = << [from |-> "Lib", to |-> "LibX"] >>
    /\ "/S/App.sln" \in DOMAIN PrevRun.before.files
    /\ Contains(PrevRun.before.files["/S/App.sln"].data, "\"Lib\\Lib.csproj\"")
    /\ "/S/App/App.csproj" \in DOMAIN fsFiles
    /\ "/S/Lib/Lib.csproj" \in DOMAIN fsFiles
    /\ Contains(fsFiles["/S/App.sln"].data, "\"LibX\\LibX.csproj\"")
    /\ "/S/LibX/LibX.csproj" \notin DOMAIN fsFiles

(***************************************************************************)
(* C11: the lines that the solution rewriter leaves alone.                   *)
(***************************************************************************)

\* The quoted path ends in a known project-file extension.
HasProjectExtension(raw_path) ==
    StrLower(PathSuffix(StrReplace(raw_path, "\\", "/"))) \in KNOWN_PROJECT_EXTENSIONS

\* The line does not match the project-line pattern, or it matches and its
\* quoted path has no known project-file extension.
IsFrameLine(m) == ~m.ok \/ ~HasProjectExtension(m.raw_path)

SlnFrameLines ==
    { k \in 1..Len(SlnInLines) : IsFrameLine(MatchProjectLine(RStrip(SlnInLines[k], {"\r", "\n"}))) }

\* The quoted paths of the lines that are no frame lines.
SlnProjectPaths ==
    { MatchProjectLine(RStrip(SlnInLines[k], {"\r", "\n"})).raw_path :
        k \in (1..Len(SlnInLines)) \ SlnFrameLines }

\* C11: every line that does not match the project-line pattern, and every
\* matching line whose quoted path has no known project-file extension, is
\* in the output as it is in the input, terminator included, and no warning
\* is about it, under both policies and for every abs_map; a content of
\* such lines only is returned unchanged without a warning and never raises.
C11_FrameOfSlnRewriter ==
    /\ slStage = "returned" =>
           /\ Len(SlnOutLines) = Len(SlnInLines)
           /\ \A k \in SlnFrameLines : SlnOutLines[k] = SlnInLines[k]
    /\ slStage \in {"returned", "raised"} =>
           /\ \A w \in 1..Len(slWarnings) :
                  \E p \in SlnProjectPaths : Contains(slWarnings[w], ": " \o p \o " (not found")
           /\ Len(slWarnings) <= Len(SlnInLines) - Cardinality(SlnFrameLines)
           /\ SlnFrameLines = 1..Len(SlnInLines) =>
                  /\ slStage = "returned"
                  /\ slText = slContent
                  /\ slWarnings = << >>

\* Policy "strict" and an empty abs_map: a solution-folder entry that ends
\* with "\r\n" and a line that is no project line come out unchanged.
C11_Witness ==
    /\ slStage = "returned"
    /\ slPolicy = "strict"
    /\ slAbsMap = << >>
    /\ Cardinality(SlnFrameLines) = 2
    /\ \E k \in SlnFrameLines : Contains(SlnInLines[k], "\"Docs\"") /\ EndsWith(SlnInLines[k], "\r\n")
    /\ \E k \in SlnFrameLines : SlnInLines[k] = "EndProject\n"
    /\ slText = slContent
    /\ slWarnings = << >>

(***************************************************************************)
(* C12: syncback and the directories of the source tree.                     *)
(***************************************************************************)

\* run_sync has just returned from a syncback run with dry_run = false.
SyncbackReturned == rsPc = "returned" /\ rsSyncback /\ ~rsDryRun

\* How often an element occurs in a sequence.
Occurrences(seq, x) == Cardinality({ k \in 1..Len(seq) : seq[k] = x })

SkipCreateWarning(path) == "skip create (missing source directory): " \o path

\* The text actions of the plan that were read and have the target path.
ReadActionsTo(actions, path) ==
    { k \in ReadActions(actions) : PathResolve(actions[k].target_abs) = path }

\* What the run did for the target path of a read text action: in a
\* directory that did not exist when the run started nothing is written and
\* every action with this target has its warning; in an existing directory
\* an action whose target is its own, and whose output is not what the
\* target held, has written its output.
SyncbackTargetOutcome(a, k, path, out) ==
    IF PathResolve(PathParent(a.target_abs)) \notin fsStart.dirs
    THEN /\ path \notin DOMAIN fsFiles
         /\ Occurrences(rsWritten, path) = 0
         /\ Occurrences(rsReport.warnings, SkipCreateWarning(path))
                = Cardinality(ReadActionsTo(rsPlan.actions, path))
    ELSE /\ Occurrences(rsReport.warnings, SkipCreateWarning(path)) = 0
         /\ UnsharedTarget(rsPlan.actions, k) =>
                IF path \in DOMAIN fsStart.files
                       /\ SafeReadText(fsStart.files[path]).text = out.text
                       /\ ~SafeReadText(fsStart.files[path]).none
                THEN Occurrences(rsWritten, path) = 0 /\ fsFiles[path] = fsStart.files[path]
                ELSE /\ Occurrences(rsWritten, path) = 1
                     /\ path \in DOMAIN fsFiles
                     /\ fsFiles[path].data = out.text

\* The replacements of the action are the reversed ones.
ReversedReplacements(a) ==
    a.replacements
        = MergeReplacements(SelectReplacements(a.source_rel, rsConfig.content_rules, TRUE),
                            [k \in 1..Len(rsConfig.path_mappings) |->
                                [from |-> rsConfig.path_mappings[k].to,
                                 to |-> rsConfig.path_mappings[k].from]])

WarningsWith(rep, words) == { w \in 1..Len(rep.warnings) : StartsWith(rep.warnings[w], words) }

\* Every action of a plan with n actions has been through the loop: it has
\* its file result, or its warning of an unreadable source or of a create
\* that was skipped.
AllProcessed(rep, n) ==
    Len(rep.file_results)
        + Cardinality(WarningsWith(rep, "skip unreadable text file: "))
        + Cardinality(WarningsWith(rep, "skip create (missing source directory): "))
    = n

\* What C13 says of one run that has ended.
VerificationGated(run) ==
    /\ run.outcome = "returned" =>
           (run.verified <=> (rsConfig.verify.enabled /\ ~run.dry_run))
    /\ run.outcome = "raised" => ~run.verified
    /\ run.verified => AllProcessed(run.report, run.report.scanned)
    /\ ~run.verified => run.report.verify_results = << >>
    /\ run.dry_run => run.report.verify_results = << >>

\* C13: run_verification is called in a run that returns if and only if
\* config.verify.enabled is true and dry_run is false, and then after every
\* action of the plan has been processed; the report of a dry run has no
\* verify results even when verification is enabled.
C13_VerificationGating ==
    /\ \A i \in 1..Len(rsHistory) : VerificationGated(rsHistory[i])
    /\ rsPc = "loop" => rsReport.verify_results = << >>

\* With verification enabled, a dry run without verify results and then a
\* run with dry_run = false whose report has them.
C13_Witness ==
    /\ rsPc = "returned"
    /\ Len(rsHistory) = 2
    /\ rsConfig.verify.enabled
    /\ rsHistory[1].dry_run
    /\ rsHistory[1].report.verify_results = << >>
    /\ rsHistory[1].report.created_or_updated > 0
    /\ ~rsHistory[2].dry_run
    /\ rsHistory[2].verified
    /\ Len(rsHistory[2].report.verify_results) >= 1
    /\ Len(rsHistory[2].report.file_results) >= 2

(***************************************************************************)
(* C14: a file is written only when its content changes.                     *)
(***************************************************************************)

\* The target of the current action holds the text: it exists, one of the
\* encodings decodes it, and what is read equals the text.
TargetHoldsText(text) ==
    /\ TargetExists
    /\ ~TargetRead.none
    /\ TargetRead.text = text
    /\ TargetRead.nul = SourceRead.nul

\* A step that changes the file system writes the output of the current
\* text action to its target, which did not hold that text, and nothing else.
WritesOnlyChange(out) ==
    (fsFiles' # fsFiles \/ fsDirs' # fsDirs \/ rsWritten' # rsWritten) =>
        /\ AtText
        /\ ~out.raised
        /\ ~rsDryRun
        /\ ~TargetHoldsText(out.text)
        /\ rsWritten' = Append(rsWritten, TargetPath)
        /\ DOMAIN fsFiles' = DOMAIN fsFiles \cup {TargetPath}
        /\ fsFiles'[TargetPath].data = out.text
        /\ \A p \in DOMAIN fsFiles : p # TargetPath => fsFiles'[p] = fsFiles[p]

\* A step of the loop at a text action whose target holds the output writes
\* nothing and counts the action as unchanged.
EqualIsUnchanged(out) ==
    (AtText /\ ~out.raised /\ TargetHoldsText(out.text) /\ rsIndex' # rsIndex) =>
        /\ fsFiles' = fsFiles
        /\ fsDirs' = fsDirs
        /\ rsWritten' = rsWritten
        /\ rsReport'.unchanged = rsReport.unchanged + 1
        /\ rsReport'.created_or_updated = rsReport.created_or_updated
        /\ Len(rsReport'.file_results) = Len(rsReport.file_results) + 1
        /\ ~rsReport'.file_results[Len(rsReport'.file_results)].changed

WriteOnlyOnChangeStep ==
    IF AtText THEN WritesOnlyChange(CurrentOutput) /\ EqualIsUnchanged(CurrentOutput)
    ELSE fsFiles' = fsFiles /\ fsDirs' = fsDirs /\ rsWritten' \in {rsWritten, << >>}

\* C14: run_sync writes a file only for a text action whose transformed
\* text differs from what the destination path holds at that moment (an
\* absent destination differs); the step for a text action whose transformed
\* text equals the content of the destination writes nothing and counts the
\* action as unchanged.
C14_WriteOnlyOnChange == [][WriteOnlyOnChangeStep]_vars

\* A first run overwrote a destination file that held another text, and a
\* second run found every destination equal and wrote nothing.
C14_Witness ==
    /\ rsPc = "returned"
    /\ Len(rsHistory) = 2
    /\ ~rsHistory[2].dry_run
    /\ \E p \in DOMAIN rsHistory[1].before.files :
           /\ Occurrences(rsHistory[1].written, p) = 1
           /\ rsHistory[1].before.files[p] # rsHistory[2].before.files[p]
    /\ rsHistory[2].written = << >>
    /\ rsHistory[2].report.unchanged >= 2
    /\ \E k \in 1..Len(rsHistory[2].report.file_results) :
           /\ ~rsHistory[2].report.file_results[k].changed
           /\ ~rsHistory[2].report.file_results[k].skipped_binary

(***************************************************************************)
(* C15: writes are confined to the output root.                              *)
(***************************************************************************)

\* The path is the root or lies below it.
UnderRoot(p, root) == p = root \/ StartsWith(p, root \o "/")

\* The files that differ from what the run found, and the directories that
\* the run made.
TouchedFiles ==
    { p \in DOMAIN fsFiles : p \notin DOMAIN fsStart.files \/ fsFiles[p] # fsStart.files[p] }

MadeDirs == fsDirs \ fsStart.dirs

\* C15: whatever the path mappings of a validated configuration are, every
\* file that a run of run_sync creates or overwrites and every directory it
\* makes lies under the destination root in a forward run and under the
\* source root in a syncback run.
C15_WritesConfinedAsClaimed ==
    rsPc \in {"loop", "returned", "raised"} =>
        /\ \A k \in 1..Len(rsWritten) : UnderRoot(rsWritten[k], OutputRoot)
        /\ \A p \in TouchedFiles : UnderRoot(p, OutputRoot)
        /\ \A d \in MadeDirs : UnderRoot(d, OutputRoot)

\* A forward run under the mapping Lib -> ../Out has returned; it wrote the
\* text of a source file below /Out, a directory it made beside the two roots.
C15_Witness ==
    /\ ForwardReturned
    /\ rsConfig.path_mappings = << [from |-> "Lib", to |-> "../Out"] >>
    /\ "/Out" \in MadeDirs
    /\ "/Out/code.py" \in TouchedFiles
    /\ Occurrences(rsWritten, "/Out/code.py") = 1
    /\ fsFiles["/Out/code.py"].data = fsStart.files["/S/Lib/code.py"].data
    /\ ~UnderRoot("/Out/code.py", DstRoot)

(***************************************************************************)
(* C16: binary files are planned and copied.                                 *)
(***************************************************************************)

BinaryActions(actions) == { k \in 1..Len(actions) : actions[k].is_binary }

\* The binary action is in the binary-skip set of the plan.
InBinarySkipSet(a, p) == Occurrences(p.skipped_binary, a.source_rel) = 1

\* The destination of the action holds the bytes of its source.
BytesCopied(a, before) ==
    /\ PathResolve(a.target_abs) \in DOMAIN fsFiles
    /\ fsFiles[PathResolve(a.target_abs)] = before.files[PathResolve(a.source_abs)]

\* C16: every included binary file is an action of the plan and a member of
\* its binary-skip set, and a run with dry_run = false that has returned has
\* copied the bytes of the file to its mapped destination path.
C16_BinaryCopiedAsClaimed ==
    (rsPc = "returned" /\ ~rsDryRun) =>
        \A k \in BinaryActions(rsPlan.actions) :
            /\ InBinarySkipSet(rsPlan.actions[k], rsPlan)
            /\ BytesCopied(rsPlan.actions[k], fsStart)

\* What the code does with a binary file: it is an action of the plan and a
\* member of the binary-skip set, the report has a per-file result for it
\* that is marked skipped_binary, and the loop wrote nothing for it.
C16_BinaryPlannedNotWritten ==
    rsPc = "returned" =>
        \A k \in BinaryActions(rsPlan.actions) :
            /\ InBinarySkipSet(rsPlan.actions[k], rsPlan)
            /\ Occurrences(rsWritten, PathResolve(rsPlan.actions[k].target_abs)) = 0
            /\ \E r \in 1..Len(rsReport.file_results) :
                   /\ rsReport.file_results[r].source_rel
                          = PathResolve(rsPlan.actions[k].source_abs)
                   /\ rsReport.file_results[r].skipped_binary
                   /\ ~rsReport.file_results[r].changed

\* A forward run with dry_run = false has returned; Lib/data.bin was planned
\* as binary and its destination /D/New/data.bin does not exist.
C16_Witness ==
    /\ ForwardReturned
    /\ \E k \in BinaryActions(rsPlan.actions) :
           /\ rsPlan.actions[k].source_rel = "Lib/data.bin"
           /\ InBinarySkipSet(rsPlan.actions[k], rsPlan)
           /\ PathResolve(rsPlan.actions[k].target_abs) = "/D/New/data.bin"
           /\ "/D/New/data.bin" \notin DOMAIN fsFiles
           /\ rsReport.skipped_binary = 1
    /\ rsWritten # << >>

(***************************************************************************)
(* C17: the inclusion decision of the planner.                               *)
(***************************************************************************)

\* The relative paths of the walked files that the ignore matcher of the
\* walked tree does not report ignored.
UnignoredWalked(files, root) ==
    { r \in { RelativeTo(p, root) : p \in { q \in DOMAIN files : StartsWith(q, root \o "/") } } :
        ~IsIgnored(IgnoreRulesOf(files, root), r) }

PlannedSources(p) == { p.actions[k].source_rel : k \in 1..Len(p.actions) }

\* The file lies under the version-control metadata directory of the
\* walked root.
UnderMetadataDirectory(source_rel) == StartsWith(source_rel, ".git/")

\* Some directory above the file is named .git.
UnderSomeMetadataDirectory(source_rel) ==
    \E k \in 1..(Len(PathParts(source_rel)) - 1) : PathParts(source_rel)[k] = ".git"

\* The three filters of the configuration let the file pass.
PassesConfiguredFilters(source_rel, config) ==
    /\ LowerSuffix(source_rel) \notin SeqRange(config.ignore_extensions)
    /\ config.include_globs # << >> => AnyGlobMatch(source_rel, config.include_globs)
    /\ ~AnyGlobMatch(source_rel, config.exclude_globs)

\* No write of the run went to the mapped path of a file that is not
\* planned, unless a planned file is mapped to the same path.
UnplannedNotWritten(source_rel, p, config, root, back, written) ==
    \/ PathResolve(PathJoin(root, ApplyPathMappings(source_rel, config.path_mappings, back)))
           \notin SeqRange(written)
    \/ \E k \in 1..Len(p.actions) :
           PathResolve(p.actions[k].target_abs)
               = PathResolve(PathJoin(root,
                     ApplyPathMappings(source_rel, config.path_mappings, back)))

InclusionDecided(source_rel, under_metadata, p, config, root, back, written) ==
    /\ source_rel \in PlannedSources(p)
           <=> (~under_metadata /\ PassesConfiguredFilters(source_rel, config))
    /\ source_rel \notin PlannedSources(p)
           => UnplannedNotWritten(source_rel, p, config, root, back, written)

\* C17: a walked file that the ignore matcher does not report ignored is an
\* action of the plan if and only if it is not under the version-control
\* metadata directory, its lowercased extension is not an ignored extension,
\* it matches an include glob when there are include globs, and it matches
\* no exclude glob; a file filtered out is not written to the destination.
C17_InclusionDecisionAsClaimed ==
    rsPc \in {"loop", "returned", "raised"} =>
        \A r \in UnignoredWalked(fsStart.files, WalkRoot) :
            InclusionDecided(r, UnderMetadataDirectory(r), rsPlan, rsConfig, OutputRoot,
                             rsSyncback, rsWritten)

\* The same with "under a directory named .git at any depth" for the
\* metadata directory.
InclusionDecisionAnyDepth ==
    rsPc \in {"loop", "returned", "raised"} =>
        \A r \in UnignoredWalked(fsStart.files, WalkRoot) :
            InclusionDecided(r, UnderSomeMetadataDirectory(r), rsPlan, rsConfig, OutputRoot,
                             rsSyncback, rsWritten)

\* What the code decides: the metadata test is the glob .git/** of
\* DEFAULT_HARD_EXCLUDES under _glob_match.
C17_InclusionDecisionOfHardExcludeGlob ==
    rsPc \in {"loop", "returned", "raised"} =>
        \A r \in UnignoredWalked(fsStart.files, WalkRoot) :
            InclusionDecided(r, AnyGlobMatch(r, DEFAULT_HARD_EXCLUDES), rsPlan, rsConfig,
                             OutputRoot, rsSyncback, rsWritten)

\* A forward run over the tree with a nested repository has returned under
\* the exclude globs of the build directories: ok/a.cs is planned and
\* written, the files under bin and obj are not, sub/.git/config is not
\* planned although it is outside the root's metadata directory and no
\* filter names it, and sub/.git/hooks/h.txt, deeper in the same directory,
\* is planned and written.
C17_Witness ==
    /\ ForwardReturned
    /\ rsConfig.exclude_globs = << "**/bin/**", "**/obj/**" >>
    /\ PlannedSources(rsPlan) = {"ok/a.cs", "sub/.git/hooks/h.txt"}
    /\ "sub/.git/config" \in UnignoredWalked(fsStart.files, SrcRoot)
    /\ PassesConfiguredFilters("sub/.git/config", rsConfig)
    /\ ~UnderMetadataDirectory("sub/.git/config")
    /\ "/D/sub/.git/config" \notin DOMAIN fsFiles
    /\ "/D/sub/.git/hooks/h.txt" \in SeqRange(rsWritten)
    /\ "/D/ok/a.cs" \in SeqRange(rsWritten)
    /\ "/D/proj/bin/Debug/b.cs" \notin DOMAIN fsFiles

(***************************************************************************)
(* C18: a text file that no encoding decodes.                                *)
(***************************************************************************)

\* The loop is at a text action whose source no candidate encoding decodes.
AtUndecodable ==
    /\ InLoop
    /\ ~CurrentAction.is_binary
    /\ ~fsFiles[PathResolve(CurrentAction.source_abs)].decodes

UnreadableWarning(source_abs) == "skip unreadable text file: " \o PathResolve(source_abs)

\* The step of the loop at such an action: one warning, one more unchanged,
\* nothing written, no file result, and the loop is at the next action.
UnreadableStep ==
    AtUndecodable =>
        /\ rsReport' = [rsReport EXCEPT
               !.warnings = Append(@, UnreadableWarning(CurrentAction.source_abs)),
               !.unchanged = @ + 1]
        /\ fsFiles' = fsFiles
        /\ fsDirs' = fsDirs
        /\ rsWritten' = rsWritten
        /\ rsPc' = "loop"
        /\ rsIndex' = rsIndex + 1
        /\ rsPlan' = rsPlan

\* The text actions of a plan whose source was undecodable when the run began.
UndecodableActions(actions, before) ==
    { k \in TextActions(actions) : ~before.files[PathResolve(actions[k].source_abs)].decodes }

\* A run that has returned has one warning for each such action, no file
\* result for it, and every action of the plan has been through the loop.
UnreadableRecorded(actions, before, rep) ==
    /\ \A k \in UndecodableActions(actions, before) :
           /\ Occurrences(rep.warnings, UnreadableWarning(actions[k].source_abs)) = 1
           /\ \A r \in 1..Len(rep.file_results) :
                  rep.file_results[r].source_rel # PathResolve(actions[k].source_abs)
    /\ rep.unchanged >= Cardinality(UndecodableActions(actions, before))
    /\ AllProcessed(rep, Len(actions))

UnreadableNonFatal ==
    /\ rsPc = "raised" => rsConfig.sln.orphan_policy = "strict"
    /\ rsPc = "returned" => UnreadableRecorded(rsPlan.actions, fsStart, rsReport)

\* C18: when no candidate encoding decodes the source of a text action,
\* run_sync records exactly one "skip unreadable text file" warning for it,
\* counts it as unchanged, writes nothing for it and goes on with the next
\* action of the plan.
C18_UnreadableIsNonFatal == [][UnreadableStep]_vars /\ []UnreadableNonFatal

\* A forward run has returned whose plan has the undecodable Lib/bad.txt
\* before other text actions: one warning for it, no destination file, and a
\* later action of the plan was written.
C18_Witness ==
    /\ ForwardReturned
    /\ \E k \in UndecodableActions(rsPlan.actions, fsStart) :
           /\ rsPlan.actions[k].source_rel = "Lib/bad.txt"
           /\ Occurrences(rsReport.warnings, UnreadableWarning(rsPlan.actions[k].source_abs)) = 1
           /\ PathResolve(rsPlan.actions[k].target_abs) \notin DOMAIN fsFiles
           /\ \E m \in (k + 1)..Len(rsPlan.actions) :
                  PathResolve(rsPlan.actions[m].target_abs) \in SeqRange(rsWritten)
    /\ rsReport.unchanged = 1

(***************************************************************************)
(* C19: the strict orphan policy aborts the run before it writes.            *)
(***************************************************************************)

\* The lines of a solution text whose reference resolves to no key of abs_map.
OrphanProjectLines(lines, source_sln_abs, abs_map) ==
    { k \in 1..Len(lines) :
        /\ SlnReference(lines[k]) # ""
        /\ SlnProjectAbs(SlnReference(lines[k]), source_sln_abs) \notin DOMAIN abs_map }

\* Under "strict", the action at rsIndex is a solution file that was read
\* and has an orphan reference.
StrictOrphanHere ==
    /\ rsIndex \in 1..Len(rsPlan.actions)
    /\ LowerSuffix(CurrentAction.source_abs) = ".sln"
    /\ ~CurrentAction.is_binary
    /\ ~SourceRead.none
    /\ rsConfig.sln.orphan_policy = "strict"
    /\ OrphanProjectLines(SplitLinesKeep(SourceRead.text), CurrentAction.source_abs, rsAbsMap)
           # {}

\* The loop is at such an action.
AtStrictOrphan == rsPc = "loop" /\ StrictOrphanHere

\* The step from there ends the run with the error and writes nothing.
StrictOrphanStep ==
    AtStrictOrphan =>
        /\ rsPc' = "raised"
        /\ fsFiles' = fsFiles
        /\ fsDirs' = fsDirs
        /\ rsWritten' = rsWritten
        /\ rsIndex' = rsIndex
        /\ rsReport' = rsReport
        /\ rsHistory' = Append(rsHistory, RunRecord("raised", rsReport, FALSE))

\* After the error nothing is written until run_sync is called again.
AfterRaiseStep == rsPc = "raised" => fsFiles' = fsFiles /\ fsDirs' = fsDirs /\ rsPc' = "loop"

\* A run that ended with the error stopped at a solution file: what it wrote
\* belongs to actions before that one, and the actions from that one on have
\* no file result, no warning and no write.
AbortedAtOrphan ==
    rsPc = "raised" =>
        /\ StrictOrphanHere
        /\ AllProcessed(rsReport, rsIndex - 1)
        /\ Len(rsWritten) <= rsIndex - 1
        /\ \A w \in 1..Len(rsWritten) :
               \E k \in 1..(rsIndex - 1) : PathResolve(rsPlan.actions[k].target_abs) = rsWritten[w]
        /\ fsDirs \ fsStart.dirs
               \subseteq UNION { PassedDirs(rsPlan.actions[k].target_abs) : k \in 1..(rsIndex - 1) }
        /\ \A p \in TouchedFiles : p \in SeqRange(rsWritten)
        /\ LastRun.outcome = "raised" /\ LastRun.written = rsWritten

\* C19: under the orphan policy "strict", when run_sync reaches a .sln
\* action with an orphan project reference the run ends with the fatal
\* error, the destination of that solution file is not written, and no
\* action later in the plan is processed or written.
C19_StrictOrphanAborts ==
    [][StrictOrphanStep /\ AfterRaiseStep]_vars /\ []AbortedAtOrphan

\* A run with dry_run = false ended with the error at App.sln, the first of
\* two actions: neither the solution nor the project file after it is in the
\* destination.
C19_Witness ==
    /\ rsPc = "raised"
    /\ ~rsDryRun
    /\ ~rsSyncback
    /\ Len(rsPlan.actions) = 2
    /\ rsIndex = 1
    /\ rsPlan.actions[1].source_rel = "App.sln"
    /\ PathResolve(rsPlan.actions[1].target_abs) \notin DOMAIN fsFiles
    /\ PathResolve(rsPlan.actions[2].target_abs) \notin DOMAIN fsFiles
    /\ rsWritten = << >>
    /\ rsReport.file_results = << >>

(***************************************************************************)
(* C20: a failure at one file and the rest of the plan.                      *)
(***************************************************************************)

\* The per-file results of a report with the given value of "changed",
\* binary results apart.
TextResults(rep, changed) ==
    { r \in 1..Len(rep.file_results) :
        ~rep.file_results[r].skipped_binary /\ rep.file_results[r].changed = changed }

\* The files that were skipped with a warning: an unreadable source, a
\* create in a directory that syncback does not make.
SkipWarnings(rep) ==
    WarningsWith(rep, "skip unreadable text file: ")
        \cup WarningsWith(rep, "skip create (missing source directory): ")

\* The counters of a report classify every skipped file as unchanged and
\* count as changed the files with a changed result only.
SkipsCountUnchanged(rep) ==
    /\ rep.created_or_updated = Cardinality(TextResults(rep, TRUE))
    /\ rep.unchanged = Cardinality(TextResults(rep, FALSE)) + Cardinality(SkipWarnings(rep))

\* C20: but for the strict orphan policy, no failure at one action
\* (unreadable source, missing syncback parent directory, failure to write
\* the destination) ends run_sync; the file is recorded with a warning and
\* classified as unchanged, not counted as changed, and every later action
\* of the plan is processed.
C20_OneBadFileAsClaimed ==
    /\ rsPc # "failed"
    /\ rsPc = "raised" => rsConfig.sln.orphan_policy = "strict"
    /\ rsPc = "returned" =>
           /\ AllProcessed(rsReport, Len(rsPlan.actions))
           /\ SkipsCountUnchanged(rsReport)

\* What holds of the code: a run that returns has processed every action,
\* and an unreadable source is counted as unchanged; a create that syncback
\* skips is counted in created_or_updated.
C20_ReturnedRunsProcessAll ==
    rsPc = "returned" =>
        /\ AllProcessed(rsReport, Len(rsPlan.actions))
        /\ rsReport.created_or_updated
               = Cardinality(TextResults(rsReport, TRUE))
                     + Cardinality(WarningsWith(rsReport,
                                                "skip create (missing source directory): "))
        /\ rsReport.unchanged
               = Cardinality(TextResults(rsReport, FALSE))
                     + Cardinality(WarningsWith(rsReport, "skip unreadable text file: "))

\* A forward run with dry_run = false ended with the error of a write: a
\* file stands at /D/New, where the first of two actions needs a directory;
\* no warning names the file, and the second action was never processed.
C20_Witness ==
    /\ rsPc = "failed"
    /\ ~rsSyncback
    /\ rsConfig.sln.orphan_policy = "warn"
    /\ Len(rsPlan.actions) = 2
    /\ rsIndex = 1
    /\ "/D/New" \in DOMAIN fsFiles
    /\ PathResolve(CurrentAction.target_abs) = "/D/New/a.txt"
    /\ rsReport.warnings = << >>
    /\ rsReport.file_results = << >>
    /\ rsReport.created_or_updated = 1
    /\ rsWritten = << >>

(***************************************************************************)
(* C21: the order of structural rewriting and generic replacement.           *)
(***************************************************************************)

\* The text of an action when the structural rewrite of its format is
\* applied to the source text and the generic replacements to its result.
StructuralFirstText(action, source_text, abs_map, orphan_policy) ==
    IF LowerSuffix(action.source_abs) = ".sln"
    THEN ApplyTextReplacements(
             RewriteSlnProjectPaths(source_text, action.source_abs, action.target_abs,
                                    abs_map, orphan_policy).text,
             action.replacements).text
    ELSE ApplyTextReplacements(
             RewriteCsprojIncludePaths(source_text, action.source_abs, action.target_abs,
                                       abs_map),
             action.replacements).text

\* The loop is at a solution or a project file that was read.
AtStructured == AtText /\ LowerSuffix(CurrentAction.source_abs) \in {".sln", ".csproj"}

AtCsproj == AtText /\ LowerSuffix(CurrentAction.source_abs) = ".csproj"

\* C21: for every .sln action and every .csproj action of run_sync the
\* structural rewrite of the format (project lines, Include attributes) is
\* applied to the source text before any generic replacement, so the text
\* of the action is the generic replacement of the structurally rewritten
\* source.
C21_StructuralFirstAsClaimed ==
    (AtStructured /\ ~CurrentOutput.raised) =>
        CurrentOutput.text
            = StructuralFirstText(CurrentAction, SourceRead.text, rsAbsMap,
                                  rsConfig.sln.orphan_policy)

\* What holds of the code: the order is the claimed one for solutions, and
\* for project files the replacements come first.
C21_OrderOfTheCode ==
    /\ (AtSln /\ ~CurrentOutput.raised) =>
           CurrentOutput.text
               = StructuralFirstText(CurrentAction, SourceRead.text, rsAbsMap,
                                     rsConfig.sln.orphan_policy)
    /\ AtCsproj =>
           CurrentOutput.text
               = RewriteCsprojIncludePaths(
                     ApplyTextReplacements(SourceRead.text, CurrentAction.replacements).text,
                     CurrentAction.source_abs, CurrentAction.target_abs, rsAbsMap)

\* The forward run under the renaming rule is at App/App.csproj, whose
\* reference ..\Lib\Lib.csproj resolves to a project of the plan with the
\* destination New/New.csproj: the text computed refers to ..\Core\Core.csproj,
\* the structural rewrite of the source to ..\New\New.csproj.
C21_Witness ==
    /\ AtCsproj
    /\ ~rsSyncback
    /\ CurrentAction.source_rel = "App/App.csproj"
    /\ Contains(SourceRead.text, "..\\Lib\\Lib.csproj")
    /\ "/S/Lib/Lib.csproj" \in DOMAIN rsAbsMap
    /\ rsAbsMap["/S/Lib/Lib.csproj"] = "/D/New/New.csproj"
    /\ Contains(CurrentOutput.text, "..\\Core\\Core.csproj")
    /\ Contains(StructuralFirstText(CurrentAction, SourceRead.text, rsAbsMap, "warn"),
                "..\\New\\New.csproj")

(***************************************************************************)
(* C22: the replacement list of a text file.                                 *)
(***************************************************************************)

\* The pairs of a list, swapped in reverse direction.
DirectedPairs(items, back) ==
    [k \in 1..Len(items) |->
        IF back THEN [from |-> items[k].to, to |-> items[k].from] ELSE items[k]]

\* The rule applies to the file: its extension list is empty or holds the
\* lowercased extension of the file, and its glob matches the path.
RuleNamesFile(rule, source_rel) ==
    /\ rule.extensions = << >> \/ LowerSuffix(source_rel) \in SeqRange(rule.extensions)
    /\ GlobMatch(source_rel, rule.path_glob)

\* The replacements of the rules that apply, in the order of the rule list.
RECURSIVE RulePairsFrom(_, _, _, _)
RulePairsFrom(source_rel, rules, back, k) ==
    IF k > Len(rules) THEN << >>
    ELSE (IF RuleNamesFile(rules[k], source_rel)
          THEN DirectedPairs(rules[k].replacements, back) ELSE << >>)
         \o RulePairsFrom(source_rel, rules, back, k + 1)

\* The list without the later duplicates of its elements.
RECURSIVE FirstSeen(_, _, _)
FirstSeen(items, k, acc) ==
    IF k > Len(items) THEN acc
    ELSE FirstSeen(items, k + 1,
                   IF items[k] \in SeqRange(acc) THEN acc ELSE Append(acc, items[k]))

ClaimedReplacements(source_rel, config, back) ==
    FirstSeen(RulePairsFrom(source_rel, config.content_rules, back, 1)
                  \o DirectedPairs(config.path_mappings, back),
              1, << >>)

\* C22: the replacement list of the action of a text file is the
\* replacements of every content rule that applies, in rule order, followed
\* by one pair per path mapping in mapping order, without the later
\* duplicates, every pair swapped in reverse direction; computing the list
\* again for the same file gives the same list.
C22_ReplacementList ==
    rsPc \in {"loop", "returned", "raised", "failed"} =>
        \A k \in TextActions(rsPlan.actions) :
            /\ rsPlan.actions[k].replacements
                   = ClaimedReplacements(rsPlan.actions[k].source_rel, rsConfig, rsSyncback)
            /\ rsPlan.actions[k].replacements
                   = ActionReplacements(rsPlan.actions[k].source_rel, FALSE, rsConfig,
                                        rsSyncback)

\* A syncback run after a forward run is in its loop: the plan has New/code.py,
\* to which the first rule applies and the second does not, with the swapped
\* pairs of that rule and no second copy of the mapping's pair; the forward
\* plan before it had Lib/code.py, to which both rules apply.
C22_Witness ==
    /\ rsPc = "loop"
    /\ rsSyncback
    /\ Len(rsHistory) = 1
    /\ Len(rsConfig.content_rules) = 2
    /\ "/S/Lib/code.py" \in DOMAIN fsStart.files
    /\ ClaimedReplacements("Lib/code.py", rsConfig, FALSE)
           = << [from |-> "lib_pkg", to |-> "new_pkg"], [from |-> "Lib", to |-> "New"],
                [from |-> "one", to |-> "uno"] >>
    /\ \E k \in TextActions(rsPlan.actions) :
           /\ rsPlan.actions[k].source_rel = "New/code.py"
           /\ rsPlan.actions[k].replacements
                  = << [from |-> "new_pkg", to |-> "lib_pkg"], [from |-> "New", to |-> "Lib"] >>

(***************************************************************************)
(* C23: the line terminators of the solution rewriter.                       *)
(***************************************************************************)

\* The terminator a line of splitlines(keepends=True) ends with; "" for a
\* last line without one.
Terminator(line) ==
    IF EndsWith(line, "\r\n") THEN "\r\n"
    ELSE IF line # "" /\ Ch(line, Len(line)) \in LineBreaks THEN Rest(line, Len(line))
    ELSE ""

\* The parts of a project line before and after its quoted path.
SlnOutside(line) ==
    LET m == MatchProjectLine(RStrip(line, {"\r", "\n"}))
    IN  << m.ok, m.prefix, m.suffix >>

\* C23: every project line that the rewriter rewrites comes out with the
\* terminator it had ("\n", "\r\n", or none for an unterminated last line)
\* and with everything outside the quoted path unchanged, and the content
\* has as many lines as before.
C23_TerminatorsAsClaimed ==
    slStage = "returned" =>
        /\ Len(SlnOutLines) = Len(SlnInLines)
        /\ \A k \in SlnMappedLines :
               /\ Terminator(SlnOutLines[k]) = Terminator(SlnInLines[k])
               /\ SlnOutside(SlnOutLines[k]) = SlnOutside(SlnInLines[k])

\* What the rewriter does: the terminator "\r\n" is kept and every other
\* rewritten line ends with "\n", also one that had no terminator or "\r";
\* the parts outside the quoted path and the number of lines are kept.
C23_TerminatorsOfTheCode ==
    slStage = "returned" =>
        /\ Len(SlnOutLines) = Len(SlnInLines)
        /\ \A k \in SlnMappedLines :
               /\ Terminator(SlnOutLines[k])
                      = (IF Terminator(SlnInLines[k]) = "\r\n" THEN "\r\n" ELSE "\n")
               /\ SlnOutside(SlnOutLines[k]) = SlnOutside(SlnInLines[k])

\* A content of two rewritten lines, the first ending with "\r\n" and the
\* last without a terminator: the output keeps "\r\n" and ends with "\n".
C23_Witness ==
    /\ slStage = "returned"
    /\ SlnMappedLines = {1, 2}
    /\ Terminator(SlnInLines[1]) = "\r\n"
    /\ Terminator(SlnOutLines[1]) = "\r\n"
    /\ Terminator(SlnInLines[2]) = ""
    /\ Terminator(SlnOutLines[2]) = "\n"
    /\ slText # slContent

(***************************************************************************)
(* C24: rooted ignore rules.                                                 *)
(***************************************************************************)

\* The pattern of the rule matches the path from the root of the tree on: the
\* whole path, or for a directory rule the directory the path is in.
MatchesFromRoot(rule, path) ==
    \/ GiMatchAt(rule.pattern, 1, path, 1)
    \/ /\ rule.directory_only
       /\ (path = rule.pattern \/ StartsWith(path, rule.pattern \o "/"))

\* The positions of the rooted rules.
RootedRules(rules) == { k \in 1..Len(rules) : rules[k].rooted }

\* C24: a rooted rule matches a path only when its pattern matches the path
\* from the root of the walked tree on; it never makes a file of a
\* subdirectory ignored because a later segment of the path matches: the
\* rule "/a.log" ignores a.log and not sub/a.log.
C24_RootedAtRootAsClaimed ==
    /\ giStage \in {"parsed", "done"} =>
           \A k \in RootedRules(giRules) :
               GitIgnoreRuleMatches(giRules[k], giPath) => MatchesFromRoot(giRules[k], giPath)
    /\ giStage = "done" /\ giContent = "/a.log\n" =>
           /\ giPath = "a.log" => giVerdict
           /\ giPath = "sub/a.log" => ~giVerdict

\* What the matcher does: a rooted rule matches from the root on, and a
\* rooted rule whose pattern has no "/" also matches every path one of whose
\* segments the pattern matches.
C24_RootedOfTheCode ==
    giStage \in {"parsed", "done"} =>
        \A k \in RootedRules(giRules) :
            GitIgnoreRuleMatches(giRules[k], giPath)
                <=> \/ MatchesFromRoot(giRules[k], giPath)
                    \/ /\ ~Contains(giRules[k].pattern, "/")
                       /\ \E part \in SeqRange(StrSplit(giPath, "/")) :
                              GiMatchAt(giRules[k].pattern, 1, part, 1)

\* The only rule is "/a.log" and the file sub/a.log is ignored.
C24_Witness ==
    /\ giStage = "done"
    /\ giContent = "/a.log\n"
    /\ giPath = "sub/a.log"
    /\ RootedRules(giRules) = {1}
    /\ ~MatchesFromRoot(giRules[1], giPath)
    /\ giVerdict

(***************************************************************************)
(* C25: the counters of the report.                                          *)
(***************************************************************************)

\* The three classes of a report add up to the scanned files, and the hits
\* of the report are those of its file results.
Conserved(rep) ==
    /\ rep.scanned = rep.created_or_updated + rep.unchanged + rep.skipped_binary
    /\ rep.replacement_hits = SumHitsFrom(rep.file_results, 1)

\* The file results of the binary files.
BinaryResults(rep) ==
    { r \in 1..Len(rep.file_results) : rep.file_results[r].skipped_binary }

\* C25: in every report that run_sync returns, forward or syncback, dry run
\* or not, scanned = created_or_updated + unchanged + skipped_binary and
\* replacement_hits is the sum of the hits of the file results; every action
\* of the plan goes through the loop once and is counted in one class: while
\* the loop runs, the text actions behind it are those counted as changed or
\* unchanged and the binary actions behind it those with a binary result.
C25_CounterConservation ==
    /\ rsPc = "returned" =>
           /\ rsReport.scanned = Len(rsPlan.actions)
           /\ rsIndex = Len(rsPlan.actions) + 1
           /\ Conserved(rsReport)
    /\ \A h \in 1..Len(rsHistory) :
           rsHistory[h].outcome = "returned" => Conserved(rsHistory[h].report)
    /\ rsPc \in {"loop", "returned"} =>
           /\ rsReport.created_or_updated + rsReport.unchanged
                  = Cardinality({ k \in TextActions(rsPlan.actions) : k < rsIndex })
           /\ Cardinality(BinaryResults(rsReport))
                  = Cardinality({ k \in BinaryActions(rsPlan.actions) : k < rsIndex })
           /\ rsReport.skipped_binary = Cardinality(BinaryActions(rsPlan.actions))
           /\ rsReport.replacement_hits = SumHitsFrom(rsReport.file_results, 1)

\* Two runs have returned: the first counted files in all three classes,
\* replacement hits and a source that could not be read; the second, a
\* syncback, counted a create that it skipped.
C25_Witness ==
    /\ rsPc = "returned"
    /\ Len(rsHistory) = 2
    /\ rsHistory[1].outcome = "returned"
    /\ rsHistory[1].report.created_or_updated > 0
    /\ rsHistory[1].report.unchanged > 0
    /\ rsHistory[1].report.skipped_binary > 0
    /\ rsHistory[1].report.replacement_hits > 0
    /\ WarningsWith(rsHistory[1].report, "skip unreadable text file: ") # {}
    /\ rsSyncback
    /\ ~rsDryRun
    /\ WarningsWith(rsReport, "skip create (missing source directory): ") # {}
    /\ rsReport.created_or_updated > Cardinality(TextResults(rsReport, TRUE))

(***************************************************************************)
(* C26: a dry run and the run that writes, from the same start.              *)
(***************************************************************************)

\* The changed flags of the file results, file by file.
ChangedFlags(rep) ==
    [r \in 1..Len(rep.file_results) |->
        << rep.file_results[r].source_rel, rep.file_results[r].changed >>]

\* The two reports have the same counters, warnings and changed flags.
SameFindings(dry, apply) ==
    /\ dry.scanned = apply.scanned
    /\ dry.created_or_updated = apply.created_or_updated
    /\ dry.unchanged = apply.unchanged
    /\ dry.skipped_binary = apply.skipped_binary
    /\ dry.ignored_by_git = apply.ignored_by_git
    /\ dry.replacement_hits = apply.replacement_hits
    /\ dry.warnings = apply.warnings
    /\ ChangedFlags(dry) = ChangedFlags(apply)

\* A dry run that returned is followed, in the same direction, by a run with
\* dry_run = false that has ended; the dry run wrote nothing, so both started
\* from the same trees.
DryThenApply ==
    /\ Len(rsHistory) = 2
    /\ rsHistory[1].dry_run
    /\ rsHistory[1].outcome = "returned"
    /\ ~rsHistory[2].dry_run
    /\ rsHistory[2].syncback = rsHistory[1].syncback
    /\ rsHistory[2].before = rsHistory[1].before

\* C26: from the same source tree, destination tree and configuration, the
\* report of a dry run and the report of a run with dry_run = false have
\* equal counters, equal warnings and equal changed flags per file, also when
\* several source files have the same destination path and in syncback.
C26_DryRunPredictsAsClaimed ==
    DryThenApply =>
        /\ rsHistory[2].outcome = "returned"
        /\ SameFindings(rsHistory[1].report, rsHistory[2].report)

\* What holds of the code: the reports agree when the second run returned,
\* no two actions of its plan have the same destination path and it skipped
\* no create.
C26_DryRunPredictsOfTheCode ==
    (/\ DryThenApply
     /\ rsPc = "returned"
     /\ DistinctTargets(rsPlan.actions)
     /\ WarningsWith(rsReport, "skip create (missing source directory): ") = {})
        => SameFindings(rsHistory[1].report, rsHistory[2].report)

\* Two sources have the same destination path, which holds the output of
\* the second: the dry run reported the second as unchanged, the run that
\* wrote the output of the first reports it as changed.
C26_Witness ==
    /\ DryThenApply
    /\ rsPc = "returned"
    /\ ~rsSyncback
    /\ ~DistinctTargets(rsPlan.actions)
    /\ rsHistory[1].report.warnings = rsReport.warnings
    /\ rsHistory[1].report.created_or_updated + 1 = rsReport.created_or_updated
    /\ rsHistory[1].report.unchanged = rsReport.unchanged + 1
    /\ ChangedFlags(rsHistory[1].report) # ChangedFlags(rsReport)

====
